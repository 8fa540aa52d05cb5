---------------------------- MODULE KyogenProofs ----------------------------
(***************************************************************************)
(* Proofs about the pipeline, for every program, memory size, word width   *)
(* and every behaviour of the bus and of the interrupt line: its types,    *)
(* its interlocks, the forwarding network they make right, and what each   *)
(* clock does to the registers and the memory.                             *)
(***************************************************************************)
EXTENDS KyogenAvalonMM, WordLemmas

(* The constants and the NOP have their types. *)
LEMMA ConstFacts == /\ 0 \in Word /\ 1 \in Word /\ 2 \in Word /\ 4 \in Word /\ 19 \in Word
                    /\ NOP \in Inst /\ Runnable(NOP)
                    /\ pc_ini \in Word
                    /\ ITOP \in Nat /\ DTOP \in Nat
<1>1. 0 \in Word /\ 1 \in Word /\ 2 \in Word /\ 4 \in Word /\ 19 \in Word
  BY WordFacts, CsrAssumption
<1>2. NOP \in Inst BY <1>1 DEF NOP, Inst, Ops, RegField, CsrNames
<1>3. Runnable(NOP)
  BY <1>2 DEF NOP, Runnable, WellFormed, SystemOps
<1>4. ITOP \in Nat /\ DTOP \in Nat BY WordFacts, MemAssumption
<1> QED BY <1>1, <1>2, <1>3, <1>4 DEF pc_ini

(* The ALU functions the pipeline's instructions use; the shifts and the   *)
(* logical functions are not among them.                                   *)
PipelineFns == {"ADD", "SUB", "COPY1", "COPY2", "SEQ", "SNE", "SLT", "SGE", "SLTU", "SGEU"}

LEMMA DecodedFn == ASSUME NEW i PROVE alu_func(i) \in PipelineFns
BY DEF alu_func, PipelineFns

(* The ALU returns a word. *)
LEMMA AluWord == ASSUME NEW fn \in PipelineFns, NEW a \in Word, NEW b \in Word
                 PROVE  AluOut(fn, a, b) \in Word /\ cmp(fn, a, b) \in BOOLEAN
<1>1. Sum(fn, a, b) \in Word BY AddWord, SubWord DEF Sum
<1>2. cmp(fn, a, b) \in BOOLEAN
  <2>1. \A n : SignBit(n) \in BOOLEAN BY DEF SignBit
  <2>2. slt(fn, a, b) \in BOOLEAN BY <2>1 DEF slt
  <2>3. (a = b) \in BOOLEAN OBVIOUS
  <2> QED BY <2>2, <2>3, Zenon DEF cmp
<1> QED BY <1>1, <1>2, ConstFacts DEF AluOut, PipelineFns

(* A bit placed at weight n is a natural number, at most n. *)
LEMMA WeightNat == ASSUME NEW v \in BOOLEAN, NEW n \in Nat
                   PROVE  Weight(v, n) \in Nat /\ Weight(v, n) <= n
BY DEF Weight

(* A CSR read returns a word. *)
LEMMA CsrOutWord == ASSUME NEW c \in CsrType, NEW n
                    PROVE  CsrOut(c, n) \in Word
<1>1. mstatus(c) \in Word
  <2>1. /\ Weight(c.IE, 1) \in Nat /\ Weight(c.IE, 1) <= 1
        /\ Weight(c.IE1, 8) \in Nat /\ Weight(c.IE1, 8) <= 8
        /\ c.PRV1 \in 0 .. 3
    BY WeightNat DEF CsrType
  <2> QED BY <2>1, WordFacts, CsrAssumption DEF mstatus, PRIV_M
<1>2. mip(c) \in Word
  <2>1. /\ Weight(c.MEIP, 2048) \in Nat /\ Weight(c.MEIP, 2048) <= 2048
        /\ Weight(c.MTIP, 128) \in Nat /\ Weight(c.MTIP, 128) <= 128
        /\ Weight(c.MSIP, 8) \in Nat /\ Weight(c.MSIP, 8) <= 8
    BY WeightNat DEF CsrType
  <2> QED BY <2>1, WordFacts, CsrAssumption DEF mip
<1>3. mie(c) \in Word
  <2>1. /\ Weight(c.MEIE, 2048) \in Nat /\ Weight(c.MEIE, 2048) <= 2048
        /\ Weight(c.MTIE, 128) \in Nat /\ Weight(c.MTIE, 128) <= 128
        /\ Weight(c.MSIE, 8) \in Nat /\ Weight(c.MSIE, 8) <= 8
    BY WeightNat DEF CsrType
  <2> QED BY <2>1, WordFacts, CsrAssumption DEF mie
<1>4. /\ c.mtvec \in Word /\ c.mscratch \in Word /\ c.mepc \in Word
      /\ c.mcause \in Word /\ c.mtval \in Word
  BY DEF CsrType
<1> QED BY <1>1, <1>2, <1>3, <1>4, ConstFacts DEF CsrOut

(* What the masks of mepc and mcause keep of a word is a word. *)
LEMMA WordBits == ASSUME NEW d \in Word
                  PROVE  /\ AlignDown(d) \in Word
                         /\ HALF * (d \div HALF) + (d % 16) \in Word
                         /\ (d \div 16) % 4 \in 0 .. 3
                         /\ d - (d % 2) \in Word
<1>1. d \in Nat /\ d < WORD /\ WORD = 2 * HALF /\ HALF \in Nat /\ HALF > 2048
  BY WordFacts, CsrAssumption
<1>2. AlignDown(d) \in Word
  <2>1. d % 4 \in 0 .. 3 /\ d % 4 <= d BY <1>1
  <2> QED BY <1>1, <2>1, WordFacts DEF AlignDown
<1>3. HALF * (d \div HALF) + (d % 16) \in Word
  <2>1. d % 16 \in 0 .. 15 BY <1>1
  <2>2. CASE d < HALF
    <3>1. d \div HALF = 0 BY <1>1, <2>2
    <3>2. HALF * (d \div HALF) = 0 BY <1>1, <3>1
    <3> QED BY <1>1, <2>1, <3>2, WordFacts
  <2>3. CASE d >= HALF
    <3>1. d \div HALF = 1 BY <1>1, <2>3
    <3>2. HALF * (d \div HALF) = HALF BY <1>1, <3>1
    <3> QED BY <1>1, <2>1, <3>2, WordFacts
  <2> QED BY <1>1, <2>2, <2>3
<1>4. (d \div 16) % 4 \in 0 .. 3 BY <1>1
<1>5. d - (d % 2) \in Word
  <2>1. d % 2 \in 0 .. 1 /\ d % 2 <= d BY <1>1
  <2> QED BY <1>1, <2>1, WordFacts
<1> QED BY <1>2, <1>3, <1>4, <1>5

(* Trap entry keeps the CSR record's type. *)
LEMMA TrapRecord == ASSUME NEW c \in CsrType, NEW e \in Word, NEW v \in Word,
                           NEW k \in Word, NEW y \in BOOLEAN, NEW n \in 0 .. 3
                    PROVE  [c EXCEPT !.mepc = e, !.mtval = v, !.mcause = k,
                                     !.IE = FALSE, !.IE1 = y, !.PRV1 = n] \in CsrType
<1> DEFINE d == [c EXCEPT !.mepc = e, !.mtval = v, !.mcause = k]
<1>1. d \in CsrType BY DEF CsrType
<1>2. [d EXCEPT !.IE = FALSE, !.IE1 = y, !.PRV1 = n] \in CsrType
  <2> HIDE DEF d
  <2> QED BY <1>1 DEF CsrType
<1> QED BY <1>2

(* The CSR unit keeps its registers' types. *)
LEMMA CsrStepType == ASSUME NEW c \in CsrType, NEW x \in CsrInput, Runnable(x.inst)
                     PROVE  Updated(c, x) \in CsrType
<1>1. TakeTrap(c, x) \in CsrType
  <2>1. TrapEpc(c, x) \in Word BY DEF TrapEpc, CsrType, CsrInput
  <2>2. TrapVal(c, x) \in Word
    <3>1. x.calc \in Word /\ x.inst.bits \in Word /\ c.pre_calc \in Word
      BY DEF CsrType, CsrInput, Inst
    <3>2. x.calc - (x.calc % 2) \in Word BY <3>1, WordBits
    <3>3. Add(x.calc - (x.calc % 2), 2) \in Word BY <3>2, ConstFacts, AddWord
    <3> QED BY <3>1, <3>2, <3>3 DEF TrapVal
  <2>3. TrapCause(c, x) \in Word
    <3>1. /\ Cause.Ecall = 8 /\ Cause.ExtInterrupt = 8 /\ Cause.Breakpoint = 3
          /\ Cause.InstAddrMisaligned = 0 /\ Cause.IllegalInst = 2
          /\ Cause.LoadAddrMisaligned = 4 /\ Cause.StoreAddrMisaligned = 6
      BY DEF Cause
    <3>2. \A n \in 0 .. 11 : n \in Word /\ HALF + n \in Word
      BY WordFacts, CsrAssumption
    <3>3. HALF + Cause.ExtInterrupt + PRIV_M = HALF + 11 BY <3>1, WordFacts DEF PRIV_M
    <3> QED BY <3>1, <3>2, <3>3 DEF TrapCause, PRIV_M
  <2>4. c.IE \in BOOLEAN /\ PRIV_M \in 0 .. 3 BY DEF CsrType, PRIV_M
  <2> QED BY <2>1, <2>2, <2>3, <2>4, TrapRecord DEF TakeTrap
<1>2. wen(x) => WriteCsr(c, x) \in CsrType
  <2> SUFFICES ASSUME wen(x) PROVE WriteCsr(c, x) \in CsrType OBVIOUS
  <2>1. csr_cmd(x.inst) = "W"
    BY DEF wen, Runnable, csr_cmd, SystemOps, Ops, CsrOps
  <2>2. wdata(c, x) \in Word BY <2>1 DEF wdata, CsrInput
  <2>3. /\ AlignDown(wdata(c, x)) \in Word
        /\ HALF * (wdata(c, x) \div HALF) + (wdata(c, x) % 16) \in Word
        /\ (wdata(c, x) \div 16) % 4 \in 0 .. 3
    BY <2>2, WordBits
  <2>4. \A k : Bit(wdata(c, x), k) \in BOOLEAN BY DEF Bit
  <2> QED BY <2>2, <2>3, <2>4 DEF WriteCsr, CsrType
<1>3. Effect(c, x) \in CsrType BY <1>1, <1>2 DEF Effect
<1>4. ASSUME NEW d \in CsrType PROVE Track(d, x) \in CsrType
  <2>1. AlignDown(x.pc) \in Word BY WordBits DEF CsrInput
  <2>2. /\ x.pc \in Word /\ x.calc \in Word /\ x.inst.bits \in Word /\ x.irq \in BOOLEAN
    BY DEF CsrInput, Inst
  <2> QED BY <2>1, <2>2 DEF Track, CsrType
<1> QED BY <1>3, <1>4 DEF Updated
---------------------------------------------------------------------------
(* Every instruction in the machine is one the program can hold. *)
InstsOK ==
  /\ \A k \in ImemIndex : Runnable(imem[k])
  /\ Runnable(imem_data) /\ Runnable(id.inst)
  /\ Runnable(id_temp.inst) /\ Runnable(id_temp2.inst)
  /\ Runnable(ex.inst) /\ Runnable(mem.inst) /\ Runnable(wb.inst)

TInv == TypeOK /\ InstsOK

(* The bubbles of ID and EX have the types of their stages. *)
LEMMA Bubbles == /\ IdBubble \in IdType /\ Runnable(IdBubble.inst)
                 /\ ExBubble \in ExType /\ Runnable(ExBubble.inst)
                 /\ MemBubble \in MemType /\ Runnable(MemBubble.inst)
                 /\ WbBubble \in WbType /\ Runnable(WbBubble.inst)
BY ConstFacts DEF IdBubble, ExBubble, MemBubble, WbBubble, IdType, ExType, MemType, WbType

(* The combinational wires have their types. *)
LEMMA WireTypes == ASSUME TInv
                   PROVE  /\ dmem_data \in Word /\ rf_wdata \in Word
                          /\ rs1_bypass \in Word /\ rs2_bypass \in Word
                          /\ ex_op1 \in Word /\ ex_op2 \in Word
                          /\ csr_in \in Word
<1>1. dmem_data \in Word BY DEF TInv, TypeOK, dmem_data
<1>2. /\ mem.csr \in Word /\ mem.alu \in Word /\ wb.csr \in Word /\ wb.alu \in Word
      /\ wb.pc \in Word /\ ex.pc \in Word /\ ex.rs1 \in Word /\ ex.rs2 \in Word
      /\ ex.inst.imm \in Word
  BY DEF TInv, TypeOK, MemType, WbType, ExType, Inst
<1>3. Add(wb.pc, 4) \in Word BY <1>2, ConstFacts, AddWord
<1>4. rf_wdata \in Word BY <1>1, <1>2, <1>3 DEF rf_wdata
<1>5. rs1_bypass \in Word BY <1>1, <1>2 DEF rs1_bypass, Bypass
<1>6. rs2_bypass \in Word BY <1>1, <1>2 DEF rs2_bypass, Bypass
<1>7. ex_op1 \in Word BY <1>2, <1>5, ConstFacts DEF ex_op1
<1>8. ex_op2 \in Word BY <1>2, <1>6, ConstFacts DEF ex_op2
<1>9. csr_in \in Word BY <1>2, <1>5 DEF csr_in
<1> QED BY <1>1, <1>4, <1>5, <1>6, <1>7, <1>8, <1>9

(* What the pipeline drives into the CSR unit has its type. *)
LEMMA PortType == ASSUME TInv, NEW st \in BOOLEAN
                  PROVE  CsrPort(st) \in CsrInput /\ Runnable(CsrPort(st).inst)
<1>1. Add(ex_op1, ex_op2) \in Word BY WireTypes, AddWord
<1>2. ex.pc \in Word /\ ex.inst \in Inst /\ interrupt_sig \in BOOLEAN /\ Runnable(ex.inst)
  BY DEF TInv, TypeOK, ExType, InstsOK
<1>3. pc_invalid \in BOOLEAN BY DEF pc_invalid
<1> QED BY <1>1, <1>2, <1>3, WireTypes DEF CsrPort, CsrInput

(* The reset state has the types. *)
LEMMA TInit == Init => TInv
<1> SUFFICES ASSUME Init PROVE TInv OBVIOUS
<1> USE DEF Init, ResetState
<1>1. csr \in CsrType
  BY CsrAssumption, ConstFacts DEF CsrInit, CsrType, PRIV_M, NOP
<1>2. imem \in [ImemIndex -> Inst] /\ \A k \in ImemIndex : Runnable(imem[k])
  BY ProgramAssumption
<1>3. dmem \in [DmemIndex -> Word] BY ProgramAssumption
<1>4. 0 \in DmemIndex BY ConstFacts DEF DmemIndex
<1>5. rv32i_reg \in [RegField -> Word] BY ConstFacts
<1>6. InstsOK
  BY <1>2, Bubbles, ConstFacts DEF InstsOK
<1>7. TypeOK
  <2>1. /\ imem \in [ImemIndex -> Inst] /\ imem_ack \in BOOLEAN /\ imem_data \in Inst
        /\ dmem \in [DmemIndex -> Word] /\ dmem_ack \in BOOLEAN
        /\ dmem_raddr \in DmemIndex
    BY <1>2, <1>3, <1>4, ConstFacts
  <2>2. /\ w_req \in BOOLEAN /\ imem_read_sig \in BOOLEAN /\ imem_read_dly \in BOOLEAN
        /\ imem_req \in BOOLEAN /\ valid_imem \in BOOLEAN
        /\ temp_lock \in BOOLEAN /\ in_loadstore \in BOOLEAN
        /\ interrupt_sig \in BOOLEAN
    OBVIOUS
  <2>3. /\ delay_stall \in 0 .. 7 /\ pc_cntr \in Word /\ if_pc \in Word
    BY ConstFacts
  <2>4. /\ id \in IdType /\ id_temp \in IdType /\ id_temp2 \in IdType
        /\ ex \in ExType /\ mem \in MemType /\ wb \in WbType
    BY Bubbles
  <2> QED BY <1>1, <1>5, <2>1, <2>2, <2>3, <2>4 DEF TypeOK
<1> QED BY <1>6, <1>7 DEF TInv
---------------------------------------------------------------------------
(* Start-up, IF and the program counter keep their types. *)
LEMMA FetchType == ASSUME TInv, NEW st, NEW kl, NEW wt,
                          Startup, FetchStage(st, kl, wt), PcUpdate(st, wt)
                   PROVE  /\ w_req' \in BOOLEAN /\ imem_read_sig' \in BOOLEAN
                          /\ imem_read_dly' \in BOOLEAN /\ delay_stall' \in 0 .. 7
                          /\ if_pc' \in Word /\ imem_req' \in BOOLEAN
                          /\ valid_imem' \in BOOLEAN /\ pc_cntr' \in Word
<1> USE DEF TInv, TypeOK
<1>1. /\ w_req' \in BOOLEAN /\ imem_read_sig' \in BOOLEAN
      /\ imem_read_dly' \in BOOLEAN /\ delay_stall' \in 0 .. 7
  <2>1. w_req' \in BOOLEAN /\ imem_read_sig' \in BOOLEAN /\ imem_read_dly' \in BOOLEAN
    BY Zenon DEF Startup
  <2>2. delay_stall' \in 0 .. 7 BY DEF Startup
  <2> QED BY <2>1, <2>2
<1>2. if_pc' \in Word /\ imem_req' \in BOOLEAN /\ valid_imem' \in BOOLEAN
  <2>1. if_pc' \in Word BY ConstFacts DEF FetchStage
  <2>2. \/ imem_req' = imem_read_dly
        \/ imem_req' = (imem_req /\ ~loadstore_in_pipe)
    BY DEF FetchStage
  <2>3. imem_req' \in BOOLEAN BY <2>2
  <2>4. valid_imem' \in BOOLEAN BY Zenon DEF FetchStage
  <2> QED BY <2>1, <2>3, <2>4
<1>3. pc_cntr' \in Word
  <2>1. /\ csr.mtvec \in Word /\ csr.mepc \in Word /\ mem.alu \in Word
        /\ mem.pc \in Word /\ mem.inst.imm \in Word
    BY DEF CsrType, MemType, Inst
  <2>2. Add(mem.pc, mem.inst.imm) \in Word /\ Add(pc_cntr, 4) \in Word
    BY <2>1, ConstFacts, AddWord
  <2>3. PcTarget \in Word BY <2>1, <2>2 DEF PcTarget
  <2> QED BY <2>3 DEF PcUpdate
<1> QED BY <1>1, <1>2, <1>3

(* The memories answer with what they hold, and keep their types.          *)
ImemAnswers == /\ imem' = imem /\ imem_ack' \in BOOLEAN
               /\ imem_data' \in Inst /\ Runnable(imem_data')
DmemAnswers == /\ dmem' \in [DmemIndex -> Word] /\ dmem_ack' \in BOOLEAN
               /\ dmem_raddr' \in DmemIndex

LEMMA ImemType == ASSUME TInv, ImemClock PROVE ImemAnswers
<1> USE DEF TInv, TypeOK
<1>1. CASE imem_req /\ pc_cntr <= ITOP
  <2>1. pc_cntr \div 4 \in ImemIndex
    BY <1>1, WordFacts, ConstFacts DEF ImemIndex
  <2> QED BY <1>1, <2>1 DEF ImemClock, InstsOK, ImemAnswers
<1>2. CASE ~(imem_req /\ pc_cntr <= ITOP)
  BY <1>2 DEF ImemClock, InstsOK, ImemAnswers
<1> QED BY <1>1, <1>2

(* The address of an access that hits, and the word a store leaves there.  *)
LEMMA AccessType == ASSUME TInv
                    PROVE  /\ mem.alu <= DTOP => mem.alu \div 4 \in DmemIndex
                           /\ [dmem EXCEPT ![mem.alu \div 4] = mem.rs2]
                                \in [DmemIndex -> Word]
<1>1. mem.alu \in Word /\ mem.rs2 \in Word /\ dmem \in [DmemIndex -> Word]
  BY DEF TInv, TypeOK, MemType
<1>2. mem.alu <= DTOP => mem.alu \div 4 \in DmemIndex
  BY <1>1, WordFacts, ConstFacts DEF DmemIndex
<1> QED BY <1>1, <1>2

LEMMA DmemClockType == ASSUME TInv, DmemClock PROVE DmemAnswers
<1>1. dmem \in [DmemIndex -> Word] /\ dmem_raddr \in DmemIndex
  BY DEF TInv, TypeOK
<1> QED BY <1>1, AccessType DEF DmemClock, DmemAnswers

(* ID and its save slots keep their types. *)
LEMMA DecodeType == ASSUME TInv, NEW st, NEW kl, NEW wt, DecodeStage(st, kl, wt)
                    PROVE  /\ id' \in IdType /\ id_temp' \in IdType /\ id_temp2' \in IdType
                           /\ temp_lock' \in BOOLEAN /\ in_loadstore' \in BOOLEAN
                           /\ Runnable(id'.inst) /\ Runnable(id_temp'.inst)
                           /\ Runnable(id_temp2'.inst)
<1> USE DEF TInv, TypeOK
<1>1. fetched \in IdType /\ Runnable(fetched.inst) BY DEF fetched, IdType, InstsOK
<1>2. /\ Runnable(id.inst) /\ Runnable(id_temp.inst) /\ Runnable(id_temp2.inst)
  BY DEF InstsOK
<1>3. in_loadstore' \in BOOLEAN BY DEF DecodeStage, isMemOp
<1> DEFINE resumed == [id_temp EXCEPT !.pc = Add(@, 4)]
<1>4. resumed \in IdType /\ Runnable(resumed.inst)
  <2>1. id_temp.pc \in Word BY DEF IdType
  <2>2. Add(id_temp.pc, 4) \in Word BY <2>1, ConstFacts, AddWord
  <2> QED BY <1>2, <2>2 DEF IdType
<1> HIDE DEF resumed
<1> DEFINE Goal == /\ id' \in IdType /\ id_temp' \in IdType /\ id_temp2' \in IdType
                   /\ temp_lock' \in BOOLEAN
                   /\ Runnable(id'.inst) /\ Runnable(id_temp'.inst)
                   /\ Runnable(id_temp2'.inst)
<1>5. ASSUME Save(st, kl, wt) PROVE Goal
  BY <1>1, <1>2, <1>5 DEF Save
<1>6. ASSUME Take(st, kl, wt) PROVE Goal
  BY <1>1, <1>2, <1>6 DEF Take
<1>7. ASSUME Flush(kl, wt) PROVE Goal
  BY <1>7, Bubbles DEF Flush
<1>8. ASSUME ResumeHeld(st, kl) PROVE Goal
  BY <1>2, <1>8 DEF ResumeHeld
<1>9. ASSUME ResumeSaved(st, kl, wt) PROVE Goal
  <2>1. id' = resumed \/ id' = id_temp BY <1>9 DEF ResumeSaved, resumed
  <2>2. id_temp' = IdBubble /\ id_temp2' = IdBubble /\ temp_lock' \in BOOLEAN
    BY <1>9 DEF ResumeSaved
  <2> QED BY <1>2, <1>4, <2>1, <2>2, Bubbles
<1>10. ASSUME HoldId(st, kl, wt) PROVE Goal
  BY <1>2, <1>10 DEF HoldId
<1>11. Goal BY <1>5, <1>6, <1>7, <1>8, <1>9, <1>10 DEF DecodeStage
<1> QED BY <1>3, <1>11

(* EX, MEM, WB and the register file keep theirs. *)
LEMMA BackType == ASSUME TInv, NEW st, NEW kl, NEW wt,
                         ExecuteStage(st, kl, wt), MemStage(kl, wt),
                         WriteBackStage(wt), RegFile
                  PROVE  /\ ex' \in ExType /\ mem' \in MemType /\ wb' \in WbType
                         /\ Runnable(ex'.inst) /\ Runnable(mem'.inst) /\ Runnable(wb'.inst)
                         /\ rv32i_reg' \in [RegField -> Word]
<1> USE DEF TInv, TypeOK
<1>1. ex' \in ExType /\ Runnable(ex'.inst)
  <2>1. id.pc \in Word /\ id.inst \in Inst /\ Runnable(id.inst) BY DEF IdType, InstsOK
  <2>2. ReadReg(id.inst.rs1) \in Word /\ ReadReg(id.inst.rs2) \in Word
    BY <2>1, ConstFacts DEF ReadReg, Inst
  <2>3. [pc |-> id.pc, inst |-> id.inst, rs1 |-> ReadReg(id.inst.rs1),
         rs2 |-> ReadReg(id.inst.rs2)] \in ExType
    BY <2>1, <2>2 DEF ExType
  <2> QED BY <2>1, <2>3, Bubbles DEF ExecuteStage, InstsOK
<1>2. mem' \in MemType /\ Runnable(mem'.inst)
  <2>1. ex.pc \in Word /\ ex.inst \in Inst /\ Runnable(ex.inst) BY DEF ExType, InstsOK
  <2>2. /\ AluOut(alu_func(ex.inst), ex_op1, ex_op2) \in Word
        /\ cmp(alu_func(ex.inst), ex_op1, ex_op2) \in BOOLEAN
    BY WireTypes, AluWord, DecodedFn
  <2>3. CsrOut(csr, ex.inst.csr) \in Word BY CsrOutWord
  <2>4. [pc |-> ex.pc, inst |-> ex.inst, rs2 |-> rs2_bypass,
         alu |-> AluOut(alu_func(ex.inst), ex_op1, ex_op2),
         cmp |-> cmp(alu_func(ex.inst), ex_op1, ex_op2),
         csr |-> CsrOut(csr, ex.inst.csr)] \in MemType
    BY <2>1, <2>2, <2>3, WireTypes DEF MemType
  <2> QED BY <2>1, <2>4, Bubbles DEF MemStage, InstsOK
<1>3. wb' \in WbType /\ Runnable(wb'.inst)
  <2>1. /\ mem.pc \in Word /\ mem.inst \in Inst /\ mem.alu \in Word /\ mem.csr \in Word
        /\ Runnable(mem.inst)
    BY DEF MemType, InstsOK
  <2>2. [pc |-> mem.pc, inst |-> mem.inst, alu |-> mem.alu, csr |-> mem.csr] \in WbType
    BY <2>1 DEF WbType
  <2> QED BY <2>1, <2>2 DEF WriteBackStage, InstsOK
<1>4. rv32i_reg' \in [RegField -> Word]
  <2>1. wb.inst.rd \in RegField BY DEF WbType, Inst
  <2> QED BY <2>1, WireTypes DEF RegFile
<1> QED BY <1>1, <1>2, <1>3, <1>4

(* One clock of the core keeps all the types, whatever memories answer.    *)
LEMMA PipelineType == ASSUME TInv, NEW w, NEW irq \in BOOLEAN, Pipeline(w, irq),
                             ImemAnswers, DmemAnswers
                      PROVE  TInv'
<1> DEFINE st == stall
           kl == inst_kill
           wt == waitrequest(w)
<1>1. /\ Startup /\ FetchStage(st, kl, wt) /\ PcUpdate(st, wt)
      /\ DecodeStage(st, kl, wt) /\ ExecuteStage(st, kl, wt) /\ MemStage(kl, wt)
      /\ WriteBackStage(wt) /\ RegFile
      /\ CsrClock(CsrPort(st)) /\ interrupt_sig' = irq
  BY DEF Pipeline
<1>2. st \in BOOLEAN BY DEF stall
<1>3. csr' \in CsrType
  <2>1. CsrPort(st) \in CsrInput /\ Runnable(CsrPort(st).inst) BY <1>2, PortType
  <2>2. csr \in CsrType BY DEF TInv, TypeOK
  <2> QED BY <1>1, <2>1, <2>2, CsrStepType DEF CsrClock
<1>4. interrupt_sig' \in BOOLEAN BY <1>1
<1> HIDE DEF st, kl, wt
<1>5. /\ w_req' \in BOOLEAN /\ imem_read_sig' \in BOOLEAN
      /\ imem_read_dly' \in BOOLEAN /\ delay_stall' \in 0 .. 7
      /\ if_pc' \in Word /\ imem_req' \in BOOLEAN
      /\ valid_imem' \in BOOLEAN /\ pc_cntr' \in Word
  BY <1>1, FetchType
<1>6. /\ id' \in IdType /\ id_temp' \in IdType /\ id_temp2' \in IdType
      /\ temp_lock' \in BOOLEAN /\ in_loadstore' \in BOOLEAN
      /\ Runnable(id'.inst) /\ Runnable(id_temp'.inst) /\ Runnable(id_temp2'.inst)
  BY <1>1, DecodeType
<1>7. /\ ex' \in ExType /\ mem' \in MemType /\ wb' \in WbType
      /\ Runnable(ex'.inst) /\ Runnable(mem'.inst) /\ Runnable(wb'.inst)
      /\ rv32i_reg' \in [RegField -> Word]
  BY <1>1, BackType
<1>8. TypeOK'
  BY <1>3, <1>4, <1>5, <1>6, <1>7 DEF TypeOK, TInv, ImemAnswers, DmemAnswers
<1>9. InstsOK'
  BY <1>5, <1>6, <1>7 DEF InstsOK, TInv, ImemAnswers
<1> QED BY <1>8, <1>9 DEF TInv

(* What a clock of the test bus consists of.                               *)
LEMMA CycleParts == ASSUME TInv, NEW w \in WaitInputs, NEW irq \in IrqInputs, Cycle(w, irq)
                    PROVE  Pipeline(w, irq) /\ irq \in BOOLEAN /\ ImemAnswers /\ DmemAnswers
BY ImemType, DmemClockType, InputAssumption DEF Cycle

(* TInv speaks of registers only, so it survives when none changes.        *)
LEMMA TStutter == ASSUME TInv, UNCHANGED vars PROVE TInv'
BY DEF vars, fetchVars, decodeVars, TInv, TypeOK, InstsOK

(* One clock of the test bus keeps all the types. *)
LEMMA TStep == ASSUME TInv, [Next]_vars PROVE TInv'
BY TStutter, CycleParts, PipelineType DEF Next

(***************************************************************************)
(* The pipeline's registers keep their types for every program, every      *)
(* memory size and word width, every pattern of bus waits and interrupts.  *)
(***************************************************************************)
THEOREM TypeCorrect == Spec => []TypeOK
<1>1. TInv /\ [Next]_vars => TInv' BY TStep
<1>2. TInv => TypeOK BY DEF TInv
<1> QED BY TInit, <1>1, <1>2, PTL DEF Spec
---------------------------------------------------------------------------
(* The interlocks.  IInv is inductive: the type invariant is needed for    *)
(* the register fields to index the register file and for SYSTEM           *)
(* instructions to name no register.                                       *)
IInv == TInv /\ Interlocks

(* A NOP names no register and does nothing. *)
LEMMA NopFields == /\ NOP.rs1 = 0 /\ NOP.rs2 = 0 /\ NOP.rd = 0
                   /\ br_type(NOP) = "N" /\ mem_wr(NOP) = "X"
BY DEF NOP, br_type, mem_wr, rf_wen, CondBranches, CsrOps

(* The decoder's columns that the forwarding network combines. *)
LEMMA DecodeFacts ==
  ASSUME NEW i \in Inst, Runnable(i)
  PROVE  /\ csr_cmd(i) # "N" /\ i.rd # 0 => rf_wen(i) /\ wb_sel(i) = "CSR"
         /\ csr_cmd(i) = "N" => wb_sel(i) # "CSR"
         /\ wb_sel(i) = "PC4" => br_type(i) \in {"J", "JR"}
         /\ wb_sel(i) = "MEM" <=> mem_wr(i) = "XRD"
         /\ rf_wen(i) => (mem_en(i) <=> wb_sel(i) = "MEM")
BY DEF csr_cmd, rf_wen, wb_sel, br_type, mem_wr, mem_en, Runnable, WellFormed,
       CsrOps, SystemOps, CondBranches

(* The forwarding network finds the settled value of a register. *)
LEMMA BypassSettled ==
  ASSUME TInv, EmptyBehind, X0Zero, ~inst_kill_branch,
         NEW r \in RegField, NEW v \in Word, r \in {ex.inst.rs1, ex.inst.rs2},
         mem_wr(mem.inst) = "XRD" => mem.inst.rd = 0 \/ mem.inst.rd # r,
         Fresh(r, v)
  PROVE  Bypass(r, v) = settled(r)
<1>1. mem.inst \in Inst /\ Runnable(mem.inst) /\ wb.inst \in Inst /\ Runnable(wb.inst)
  BY DEF TInv, TypeOK, InstsOK, MemType, WbType
<1>2. CASE r = 0 BY <1>2 DEF Bypass, settled, Fresh
<1>3. CASE r # 0 /\ writes(mem, r)
  <2>1. wb_sel(mem.inst) # "PC4" BY <1>1, DecodeFacts DEF inst_kill_branch
  <2>2. wb_sel(mem.inst) # "MEM" BY <1>1, <1>3, DecodeFacts DEF writes
  <2> QED BY <1>1, <1>3, <2>1, <2>2, DecodeFacts DEF Bypass, settled, writes, result
<1>4. CASE r # 0 /\ ~writes(mem, r) /\ writes(wb, r)
  <2>1. wb_sel(wb.inst) # "PC4"
    BY <1>1, <1>4, DecodeFacts, NopFields DEF EmptyBehind
  <2>2. wb_sel(wb.inst) # "MEM"
    BY <1>1, <1>4, DecodeFacts, NopFields DEF EmptyBehind
  <2> QED
    BY <1>1, <1>4, <2>1, <2>2, DecodeFacts DEF Bypass, settled, writes, result
<1>5. CASE r # 0 /\ ~writes(mem, r) /\ ~writes(wb, r)
  BY <1>1, <1>5, DecodeFacts DEF Bypass, settled, writes, Fresh
<1> QED BY <1>2, <1>3, <1>4, <1>5

(* The interlocks make the forwarding network right. *)
LEMMA InterlocksSuffice == IInv => OperandsCorrect
<1> SUFFICES ASSUME IInv, ~inst_kill_branch
             PROVE  /\ rs1_bypass = settled(ex.inst.rs1)
                    /\ rs2_bypass = settled(ex.inst.rs2)
  BY DEF OperandsCorrect
<1>1. /\ ex.inst.rs1 \in RegField /\ ex.inst.rs2 \in RegField
      /\ ex.rs1 \in Word /\ ex.rs2 \in Word
  BY DEF IInv, TInv, TypeOK, ExType, Inst
<1>2. rs1_bypass = settled(ex.inst.rs1)
  BY <1>1, BypassSettled DEF IInv, Interlocks, OperandsFresh, NoUseBehindLoad, rs1_bypass
<1>3. rs2_bypass = settled(ex.inst.rs2)
  BY <1>1, BypassSettled DEF IInv, Interlocks, OperandsFresh, NoUseBehindLoad, rs2_bypass
<1> QED BY <1>2, <1>3

(* Nothing is in the pipeline after reset. *)
LEMMA InterlocksInit == Init => Interlocks
<1> SUFFICES ASSUME Init PROVE Interlocks OBVIOUS
<1>1. /\ wb.inst = NOP /\ mem.inst = NOP /\ ex.inst = NOP /\ ex.rs1 = 0 /\ ex.rs2 = 0
      /\ rv32i_reg = [r \in RegField |-> 0]
  BY DEF Init, ResetState, WbBubble, MemBubble, ExBubble
<1>2. rv32i_reg[0] = 0 BY <1>1 DEF RegField
<1> QED
  BY <1>1, <1>2, NopFields
  DEF Interlocks, EmptyBehind, NoUseBehindLoad, OperandsFresh, Fresh, X0Zero

(* What the write port leaves alone. *)
LEMMA RegFileKeeps == ASSUME TInv, RegFile
                      PROVE  /\ \A r \in RegField : ~writes(wb, r) => rv32i_reg'[r] = rv32i_reg[r]
                             /\ rv32i_reg'[0] = rv32i_reg[0]
<1>1. rv32i_reg \in [RegField -> Word] /\ 0 \in RegField
  BY DEF TInv, TypeOK, RegField
<1> QED BY <1>1 DEF RegFile, writes

(* One clock keeps the interlocks. *)
LEMMA InterlocksStep ==
  ASSUME IInv, NEW w, NEW irq, Pipeline(w, irq)
  PROVE  Interlocks'
<1> DEFINE wt == waitrequest(w)
<1>1. /\ ExecuteStage(stall, inst_kill, wt) /\ MemStage(inst_kill, wt)
      /\ WriteBackStage(wt) /\ RegFile
  BY DEF Pipeline
<1> HIDE DEF wt
<1>2. /\ id.inst \in Inst /\ ex.inst \in Inst /\ wb.inst \in Inst
      /\ rv32i_reg \in [RegField -> Word]
  BY DEF IInv, TInv, TypeOK, IdType, ExType, WbType
<1>3. /\ \A r \in RegField : ~writes(wb, r) => rv32i_reg'[r] = rv32i_reg[r]
      /\ rv32i_reg'[0] = rv32i_reg[0]
  BY <1>1, RegFileKeeps DEF IInv
<1>4. X0Zero' BY <1>3 DEF X0Zero, IInv, Interlocks
<1>5. CASE wt
  <2>1. ex' = ex /\ mem' = mem /\ wb' = wb
    BY <1>1, <1>5 DEF ExecuteStage, MemStage, WriteBackStage
  <2>2. EmptyBehind' /\ NoUseBehindLoad'
    BY <2>1 DEF IInv, Interlocks, EmptyBehind, NoUseBehindLoad
  <2>3. OperandsFresh'
    BY <1>2, <1>3, <2>1
    DEF IInv, Interlocks, OperandsFresh, Fresh, writes, Inst
  <2> QED BY <1>4, <2>2, <2>3 DEF Interlocks
<1>6. CASE ~wt
  <2>1. wb'.inst = mem.inst BY <1>1, <1>6 DEF WriteBackStage
  <2>2. mem'.inst = NOP \/ mem'.inst = ex.inst
    BY <1>1, <1>6 DEF MemStage, MemBubble
  <2>3. CASE ex' = ExBubble
    <3>1. ex'.inst = NOP /\ ex'.rs1 = 0 /\ ex'.rs2 = 0 BY <2>3 DEF ExBubble
    <3>2. EmptyBehind' BY <3>1 DEF EmptyBehind
    <3>3. NoUseBehindLoad' BY <3>1, NopFields DEF NoUseBehindLoad
    <3>4. OperandsFresh' BY <3>1, <1>4, NopFields DEF OperandsFresh, Fresh, X0Zero
    <3> QED BY <1>4, <3>2, <3>3, <3>4 DEF Interlocks
  <2>4. CASE ex' # ExBubble
    <3>1. /\ ~stall /\ ~inst_kill
          /\ ex' = [pc |-> id.pc, inst |-> id.inst,
                    rs1 |-> ReadReg(id.inst.rs1), rs2 |-> ReadReg(id.inst.rs2)]
      BY <1>1, <1>6, <2>4 DEF ExecuteStage
    <3>2. EmptyBehind'
      BY <1>1, <1>6, <2>1, <2>4, <3>1
      DEF ExecuteStage, EmptyBehind, inst_kill, inst_kill_branch, loadstore_proc, isMemOp
    <3>3. NoUseBehindLoad'
      BY <2>2, <3>1, NopFields DEF NoUseBehindLoad, stall
    <3>4. ASSUME NEW r \in RegField, r = id.inst.rs1 \/ r = id.inst.rs2
          PROVE  ReadReg(r) = rv32i_reg'[r]
      <4>1. r = 0 \/ r # wb.inst.rd BY <3>1, <3>4 DEF stall
      <4>2. rv32i_reg'[r] = rv32i_reg[r] BY <1>3, <4>1 DEF writes
      <4>3. ReadReg(r) = rv32i_reg[r] BY DEF ReadReg, IInv, Interlocks, X0Zero
      <4> QED BY <4>2, <4>3
    <3>5. OperandsFresh'
      BY <1>2, <3>1, <3>4 DEF OperandsFresh, Fresh, Inst
    <3> QED BY <1>4, <3>2, <3>3, <3>5 DEF Interlocks
  <2> QED BY <2>3, <2>4
<1> QED BY <1>5, <1>6

LEMMA InterlocksStutter == ASSUME IInv, UNCHANGED vars PROVE Interlocks'
BY DEF IInv, vars, decodeVars, fetchVars, Interlocks, EmptyBehind,
       NoUseBehindLoad, OperandsFresh, Fresh, X0Zero, writes

(* IInv is inductive. *)
LEMMA IInvInvariant == Spec => []IInv
<1>1. Init => IInv BY TInit, InterlocksInit DEF IInv
<1>2. IInv /\ [Next]_vars => IInv'
  <2>1. CASE UNCHANGED vars BY <2>1, TStep, InterlocksStutter DEF IInv
  <2>2. CASE Next BY <2>2, TStep, CycleParts, InterlocksStep DEF Next, IInv
  <2> QED BY <2>1, <2>2
<1> QED BY <1>1, <1>2, PTL DEF Spec

(***************************************************************************)
(* EX is empty behind a jump or a load in WB, holds no user of a load in   *)
(* MEM, and holds operands the register file still agrees with: for every  *)
(* program and every pattern of waits and interrupts (core.scala 280-325). *)
(***************************************************************************)
THEOREM InterlocksCorrect == Spec => []Interlocks
<1>1. IInv => Interlocks BY DEF IInv
<1> QED BY <1>1, IInvInvariant, PTL

(***************************************************************************)
(* Every instruction that can take effect computes on the values the       *)
(* instructions before it leave in the registers: for every program, every *)
(* pattern of waits on the bus and of interrupts, every memory size        *)
(* (core.scala 329-348).                                                   *)
(***************************************************************************)
THEOREM ForwardingCorrect == Spec => []OperandsCorrect
BY IInvInvariant, InterlocksSuffice, PTL
---------------------------------------------------------------------------
(* The core behind the Avalon-MM wrapper.  The same invariant holds: the   *)
(* pipeline's step does not depend on which memories answer it.  What the  *)
(* data slave owes is an address of the memory.                            *)
PendingOK == pending \in DmemIndex \cup {NoRead}

AvalonInv == IInv /\ PendingOK

LEMMA InstSlaveType == ASSUME TInv, NEW iw, InstSlave(iw) PROVE ImemAnswers
<1>1. CASE ImemClock BY <1>1, ImemType
<1>2. CASE imem_ack' = FALSE /\ UNCHANGED <<imem, imem_data>>
  BY <1>2 DEF ImemAnswers, TInv, TypeOK, InstsOK
<1> QED BY <1>1, <1>2 DEF InstSlave

LEMMA DataSlaveType == ASSUME TInv, PendingOK, NEW dw, NEW late, DataSlave(dw, late)
                       PROVE  DmemAnswers /\ PendingOK'
<1> DEFINE asked == IF accepts(dw, "XRD") THEN mem.alu \div 4 ELSE pending
<1>1. asked \in DmemIndex \cup {NoRead}
  BY AccessType DEF accepts, PendingOK
<1>2. dmem' = [dmem EXCEPT ![mem.alu \div 4] = mem.rs2] \/ dmem' = dmem
  BY DEF DataSlave
<1>3. \/ asked # NoRead /\ dmem_ack' = TRUE /\ dmem_raddr' = asked /\ pending' = NoRead
      \/ dmem_ack' = FALSE /\ pending' = asked /\ dmem_raddr' = dmem_raddr
  BY DEF DataSlave
<1> HIDE DEF asked
<1>4. dmem \in [DmemIndex -> Word] /\ dmem_raddr \in DmemIndex
  BY DEF TInv, TypeOK
<1> QED BY <1>1, <1>2, <1>3, <1>4, AccessType DEF DmemAnswers, PendingOK

LEMMA AvalonInvariant == AvalonSpec => []AvalonInv
<1>1. AvalonInit => AvalonInv
  BY TInit, InterlocksInit DEF AvalonInit, AvalonInv, IInv, PendingOK
<1>2. AvalonInv /\ [AvalonNext]_avalonVars => AvalonInv'
  <2>1. ASSUME AvalonInv, UNCHANGED avalonVars PROVE AvalonInv'
    <3>1. UNCHANGED vars /\ pending' = pending BY <2>1 DEF avalonVars
    <3> QED BY <2>1, <3>1, TStutter, InterlocksStutter DEF AvalonInv, IInv, PendingOK
  <2>2. ASSUME AvalonInv, NEW iw \in InstWaits, NEW dw \in DataWaits,
               NEW late \in DataWaits, AvalonCycle(iw, dw, late)
        PROVE  AvalonInv'
    <3>1. /\ Pipeline(imem_waits(iw) \/ dmem_waits(dw), FALSE)
          /\ InstSlave(iw) /\ DataSlave(dw, late)
      BY <2>2 DEF AvalonCycle
    <3>2. ImemAnswers /\ DmemAnswers /\ PendingOK'
      BY <2>2, <3>1, InstSlaveType, DataSlaveType DEF AvalonInv, IInv
    <3>3. TInv' BY <2>2, <3>1, <3>2, PipelineType DEF AvalonInv, IInv
    <3>4. Interlocks' BY <2>2, <3>1, InterlocksStep DEF AvalonInv
    <3> QED BY <3>2, <3>3, <3>4 DEF AvalonInv, IInv
  <2> QED BY <2>1, <2>2 DEF AvalonNext
<1> QED BY <1>1, <1>2, PTL DEF AvalonSpec

(***************************************************************************)
(* Behind the wrapper, too, the forwarding network gives every instruction *)
(* that can take effect the values its predecessors leave: whatever the    *)
(* slaves' waits and delays do to the pipeline (core.scala 329-346,        *)
(* kyogenrv_fpga_avalonMM.sv).                                             *)
(***************************************************************************)
THEOREM AvalonForwardingCorrect == AvalonSpec => [](TypeOK /\ Interlocks /\ OperandsCorrect)
<1>1. AvalonInv => TypeOK /\ Interlocks /\ OperandsCorrect
  BY InterlocksSuffice DEF AvalonInv, IInv, TInv
<1> QED BY <1>1, AvalonInvariant, PTL

(* A clock behind the wrapper keeps AnswersClaimed, if instructions come   *)
(* without waits: a load leaves MEM in the clock in which it is accepted,  *)
(* and stays in WB until its answer is there.                              *)
LEMMA AnswersClaimedStep ==
  ASSUME AvalonInv, AnswersClaimed, LoadsApart, pending # NoRead => ~dmem_ack,
         NEW dw, NEW late, AvalonCycle(FALSE, dw, late)
  PROVE  AnswersClaimed' /\ (pending # NoRead => ~dmem_ack)'
<1> DEFINE wt == waitrequest(imem_waits(FALSE) \/ dmem_waits(dw))
           asked == IF accepts(dw, "XRD") THEN mem.alu \div 4 ELSE pending
<1>1. wb' = IF wt THEN wb ELSE [pc |-> mem.pc, inst |-> mem.inst,
                                alu |-> mem.alu, csr |-> mem.csr]
  BY DEF AvalonCycle, Pipeline, WriteBackStage
<1>2. \/ asked # NoRead /\ dmem_ack' = TRUE /\ dmem_raddr' = asked /\ pending' = NoRead
      \/ dmem_ack' = FALSE /\ pending' = asked /\ dmem_raddr' = dmem_raddr
  BY DEF AvalonCycle, DataSlave
<1>3. wt <=> dmem_waits(dw) \/ dmem_rd_wait BY DEF waitrequest, imem_waits
<1> HIDE DEF wt
<1>4. asked # NoRead => mem_wr(wb'.inst) = "XRD" /\ asked = wb'.alu \div 4
  <2>1. CASE accepts(dw, "XRD")
    <3>1. mem_wr(mem.inst) = "XRD" /\ ~dmem_waits(dw) /\ asked = mem.alu \div 4
      BY <2>1 DEF accepts
    <3>2. mem_wr(wb.inst) # "XRD" BY <3>1 DEF LoadsApart, isMemOp
    <3>3. ~wt BY <1>3, <3>1, <3>2 DEF dmem_rd_wait
    <3> QED BY <1>1, <3>1, <3>3
  <2>2. CASE ~accepts(dw, "XRD") /\ pending # NoRead
    <3>1. /\ mem_wr(wb.inst) = "XRD" /\ pending = wb.alu \div 4 /\ ~dmem_ack
          /\ asked = pending
      BY <2>2 DEF AnswersClaimed
    <3>2. wt BY <1>3, <3>1 DEF dmem_rd_wait
    <3> QED BY <1>1, <3>1, <3>2
  <2>3. CASE ~accepts(dw, "XRD") /\ pending = NoRead BY <2>3
  <2> QED BY <2>1, <2>2, <2>3
<1> HIDE DEF asked
<1> QED BY <1>2, <1>4 DEF AnswersClaimed

(***************************************************************************)
(* Every answer of a data slave reaches the load that asked for it, for    *)
(* every program that keeps its loads apart, every memory and every delay  *)
(* of the data slaves (dmem_rd_wait, core.scala 117; datawaitreq, line 40  *)
(* of the wrapper).  Without LoadsApart it is false: the answer of one of  *)
(* two loads back to back can reach the other.                             *)
(***************************************************************************)
THEOREM AnswersReachTheirLoads ==
  ASSUME InstWaits = {FALSE}
  PROVE  AvalonSpec /\ []LoadsApart => []AnswersClaimed
<1> DEFINE One == pending # NoRead => ~dmem_ack
<1>1. AvalonInit => AnswersClaimed /\ One
  BY DEF AvalonInit, Init, ResetState, AnswersClaimed
<1>2. /\ AvalonInv /\ LoadsApart /\ AnswersClaimed /\ One /\ [AvalonNext]_avalonVars
      => (AnswersClaimed /\ One)'
  <2>1. ASSUME AnswersClaimed, One, UNCHANGED avalonVars PROVE (AnswersClaimed /\ One)'
    BY <2>1 DEF avalonVars, vars, AnswersClaimed
  <2>2. ASSUME AvalonInv, LoadsApart, AnswersClaimed, One, AvalonNext
        PROVE  (AnswersClaimed /\ One)'
    BY <2>2, AnswersClaimedStep DEF AvalonNext
  <2> QED BY <2>1, <2>2
<1> QED BY <1>1, <1>2, AvalonInvariant, PTL DEF AvalonSpec
---------------------------------------------------------------------------
(***************************************************************************)
(* What the interlocks are for: each clock of the pipeline carries out the *)
(* instruction in EX as its meaning says, or changes nothing for the       *)
(* program, on the test bus and behind the Avalon-MM wrapper.              *)
(*                                                                         *)
(* The argument has three parts: what the instruction in EX computes on    *)
(* settled operands is what it means; what MEM and WB still have to write  *)
(* comes out of them unchanged; and the memory gives a load in WB the word *)
(* it asked for.  Only the last depends on the memory, and needs an        *)
(* invariant of its own.                                                   *)
(***************************************************************************)
(* What the instruction in EX computes.                                    *)
aluOfEx == AluOut(alu_func(ex.inst), ex_op1, ex_op2)
cmpOfEx == cmp(alu_func(ex.inst), ex_op1, ex_op2)

(* The operands, when the instruction can take effect. *)
LEMMA Operands ==
  ASSUME IInv, ~inst_kill_branch
  PROVE  /\ rs1_bypass = settled(ex.inst.rs1) /\ rs2_bypass = settled(ex.inst.rs2)
         /\ settled(ex.inst.rs1) \in Word /\ settled(ex.inst.rs2) \in Word
         /\ ex.inst.imm \in Word /\ ex.pc \in Word /\ ex.inst \in Inst
<1>1. rs1_bypass = settled(ex.inst.rs1) /\ rs2_bypass = settled(ex.inst.rs2)
  BY InterlocksSuffice DEF OperandsCorrect
<1>2. rs1_bypass \in Word /\ rs2_bypass \in Word BY WireTypes DEF IInv
<1>3. ex.inst.imm \in Word /\ ex.pc \in Word /\ ex.inst \in Inst
  BY DEF IInv, TInv, TypeOK, ExType, Inst
<1> QED BY <1>1, <1>2, <1>3

(* Instructions that use the adder. *)
LEMMA SumOfEx ==
  ASSUME IInv, ~inst_kill_branch
  PROVE  LET a == settled(ex.inst.rs1)  imm == ex.inst.imm IN
         /\ ex.inst.op \in {"ADDI", "LW", "SW", "JALR"} =>
              aluOfEx = Add(a, imm) /\ Add(ex_op1, ex_op2) = Add(a, imm)
         /\ ex.inst.op \in {"AUIPC", "JAL"} =>
              aluOfEx = Add(ex.pc, imm) /\ Add(ex_op1, ex_op2) = Add(ex.pc, imm)
BY Operands DEF aluOfEx, AluOut, Sum, isSub, alu_func, ex_op1, ex_op2, alu_op1, alu_op2,
                CondBranches, SystemOps, CsrOps

(* Instructions that use the comparator. *)
LEMMA ComparisonOfEx ==
  ASSUME IInv, ~inst_kill_branch, ex.inst.op \in CondBranches \cup {"SLTU"}
  PROVE  LET a == settled(ex.inst.rs1)  b == settled(ex.inst.rs2) IN
         /\ ex.inst.op \in CondBranches => (cmpOfEx <=> Taken(ex.inst, a, b))
         /\ ex.inst.op = "SLTU" => aluOfEx = IF a < b THEN 1 ELSE 0
<1> DEFINE i == ex.inst
           a == settled(i.rs1)
           b == settled(i.rs2)
<1> DEFINE Goal == /\ i.op \in CondBranches => (cmpOfEx <=> Taken(i, a, b))
                   /\ i.op = "SLTU" => aluOfEx = IF a < b THEN 1 ELSE 0
<1> SUFFICES Goal OBVIOUS
<1>1. a \in Word /\ b \in Word /\ ex_op1 = a /\ ex_op2 = b
  BY Operands DEF ex_op1, ex_op2, alu_op1, alu_op2, CondBranches, SystemOps, CsrOps
<1>2. cmpOfEx = cmp(alu_func(i), a, b) /\ aluOfEx = AluOut(alu_func(i), a, b)
  BY <1>1 DEF cmpOfEx, aluOfEx
<1> HIDE DEF a, b
<1>3. Signed(a) \in Int /\ Signed(b) \in Int /\ a \in Int /\ b \in Int
  BY <1>1, WordFacts DEF Signed
<1>4. CASE i.op \in {"BEQ", "BNE"}
  <2>1. alu_func(i) = IF i.op = "BEQ" THEN "SEQ" ELSE "SNE" BY <1>4 DEF alu_func
  <2>2. cmp(alu_func(i), a, b) <=> IF i.op = "BEQ" THEN a = b ELSE a # b
    BY <1>4, <2>1 DEF cmp, isCmpI, isCmpEq, isSub
  <2>3. Taken(i, a, b) <=> IF i.op = "BEQ" THEN a = b ELSE a # b
    BY <1>4 DEF Taken
  <2> QED BY <1>2, <1>4, <2>2, <2>3
<1>5. CASE i.op \in {"BLT", "BGE"}
  <2>1. slt(alu_func(i), a, b) <=> Signed(a) < Signed(b)
    BY <1>1, <1>5, SignedLess DEF alu_func
  <2>2. ~isCmpEq(alu_func(i)) /\ (isCmpI(alu_func(i)) <=> i.op = "BGE")
    BY <1>5 DEF alu_func, isCmpEq, isSub, isCmpI
  <2>3. cmpOfEx <=> IF i.op = "BGE" THEN ~(Signed(a) < Signed(b)) ELSE Signed(a) < Signed(b)
    BY <1>2, <2>1, <2>2 DEF cmp
  <2>4. Taken(i, a, b) <=> IF i.op = "BGE" THEN Signed(a) >= Signed(b)
                                            ELSE Signed(a) < Signed(b)
    BY <1>5 DEF Taken
  <2>5. Signed(a) >= Signed(b) <=> ~(Signed(a) < Signed(b)) BY <1>3
  <2>6. i.op \in {"BLT", "BGE"} => i.op # "SLTU" OBVIOUS
  <2> QED BY <1>5, <2>3, <2>4, <2>5, <2>6
<1>6. CASE i.op \in {"BLTU", "BGEU", "SLTU"}
  <2>1. slt(alu_func(i), a, b) <=> a < b
    BY <1>1, <1>6, UnsignedLess DEF alu_func
  <2>2. ~isCmpEq(alu_func(i)) /\ (isCmpI(alu_func(i)) <=> i.op = "BGEU")
    BY <1>6 DEF alu_func, isCmpEq, isSub, isCmpI
  <2>3. cmpOfEx <=> IF i.op = "BGEU" THEN ~(a < b) ELSE a < b
    BY <1>2, <2>1, <2>2 DEF cmp
  <2>4. i.op = "SLTU" => aluOfEx = IF cmpOfEx THEN 1 ELSE 0
    BY <1>2 DEF AluOut, alu_func, CondBranches
  <2>5. i.op # "SLTU" => (Taken(i, a, b) <=> IF i.op = "BGEU" THEN a >= b ELSE a < b)
    BY <1>6 DEF Taken
  <2>6. (i.op = "SLTU" => (cmpOfEx <=> a < b)) /\ (i.op \in CondBranches => i.op # "SLTU")
    BY <2>3 DEF CondBranches
  <2>7. a >= b <=> ~(a < b) BY <1>3
  <2> QED BY <1>6, <2>3, <2>4, <2>5, <2>6, <2>7
<1> QED BY <1>4, <1>5, <1>6 DEF CondBranches

(* What raises no exception is aligned. *)
LEMMA AlignedEx ==
  ASSUME IInv, ~inst_kill
  PROVE  LET a == settled(ex.inst.rs1)  imm == ex.inst.imm IN
         /\ ex.inst.op \in {"LW", "SW", "JALR"} => Add(a, imm) % 4 = 0
         /\ ex.inst.op = "JAL" => Add(ex.pc, imm) % 4 = 0
<1>1. ~inst_kill_branch /\ ~csr_expt BY DEF inst_kill
<1>2. /\ j_check(ex.inst) => ~Misaligned(Add(ex_op1, ex_op2))
      /\ mem_wr(ex.inst) \in {"XRD", "XWR"} => ~Misaligned(Add(ex_op1, ex_op2))
  BY <1>1 DEF csr_expt, expt, CsrPort, iaddrInvalid_j, laddrInvalid, saddrInvalid
<1>3. /\ ex.inst.op \in {"JAL", "JALR"} => j_check(ex.inst)
      /\ ex.inst.op \in {"LW", "SW"} => mem_wr(ex.inst) \in {"XRD", "XWR"}
  BY DEF j_check, br_type, mem_wr, CondBranches
<1> QED BY <1>1, <1>2, <1>3, SumOfEx DEF Misaligned

(* Where an aligned jump goes. *)
LEMMA JumpOfEx ==
  ASSUME IInv, ~inst_kill, isJump(ex.inst)
  PROVE  /\ aluOfEx = Target(ex.inst, settled(ex.inst.rs1), ex.pc)
         /\ aluOfEx % 4 = 0
<1> DEFINE t == Add(settled(ex.inst.rs1), ex.inst.imm)
<1>1. ~inst_kill_branch BY DEF inst_kill
<1>2. CASE ex.inst.op = "JAL"
  BY <1>1, <1>2, SumOfEx, AlignedEx DEF Target
<1>3. CASE ex.inst.op = "JALR"
  <2>1. aluOfEx = t /\ t % 4 = 0 BY <1>1, <1>3, SumOfEx, AlignedEx
  <2>2. t \in Nat BY <1>1, Operands, AddWord, WordFacts
  <2>3. Target(ex.inst, settled(ex.inst.rs1), ex.pc) = t - (t % 2) BY <1>3 DEF Target
  <2> HIDE DEF t
  <2>4. t % 2 = 0 BY <2>1, <2>2
  <2> QED BY <2>1, <2>2, <2>3, <2>4
<1> QED BY <1>2, <1>3 DEF isJump

(* A jump, a load or a store that passes raises no exception. *)
LEMMA NoCauseOfEx ==
  ASSUME IInv, ~inst_kill, isMem(ex.inst) \/ isJump(ex.inst)
  PROVE  CauseOf(ex.inst, settled(ex.inst.rs1), ex.pc) = NoCause
<1> DEFINE i == ex.inst
           a == settled(i.rs1)
<1>1. CASE isJump(i)
  <2>1. ~Misaligned(Target(i, a, ex.pc)) BY <1>1, JumpOfEx DEF Misaligned
  <2> QED BY <1>1, <2>1 DEF CauseOf, isJump
<1>2. CASE isMem(i)
  <2>1. ~Misaligned(Add(a, i.imm)) BY <1>2, AlignedEx DEF Misaligned, isMem
  <2> QED BY <1>2, <2>1 DEF CauseOf, isMem, isJump
<1> QED BY <1>1, <1>2

(* Loads and stores reach the word their address names. *)
LEMMA AccessOfEx ==
  ASSUME IInv, ~inst_kill, isMem(ex.inst)
  PROVE  /\ aluOfEx = Add(settled(ex.inst.rs1), ex.inst.imm)
         /\ aluOfEx \in Word /\ aluOfEx \div 4 \in Word
         /\ aluOfEx <= DTOP <=> aluOfEx \div 4 \in DmemIndex
<1>1. aluOfEx = Add(settled(ex.inst.rs1), ex.inst.imm) /\ aluOfEx % 4 = 0
  BY SumOfEx, AlignedEx DEF inst_kill, isMem
<1>2. aluOfEx \in Word BY <1>1, Operands, AddWord DEF inst_kill
<1>3. aluOfEx \in Nat /\ DTOP \in Nat /\ aluOfEx \div 4 \in Nat /\ aluOfEx \div 4 <= aluOfEx
  BY <1>2, WordFacts, ConstFacts
<1>4. aluOfEx <= DTOP <=> aluOfEx \div 4 <= DTOP \div 4 BY <1>1, <1>3
<1>5. aluOfEx \div 4 \in Word BY <1>2, <1>3, WordFacts
<1> QED BY <1>1, <1>2, <1>3, <1>4, <1>5 DEF DmemIndex

(* The value the instruction in EX will write is the one it means. *)
LEMMA ResultOfEx ==
  ASSUME IInv, ~inst_kill, rf_wen(ex.inst), NEW old
  PROVE  LET R == Result(ex.inst, settled(ex.inst.rs1), settled(ex.inst.rs2), ex.pc,
                         old, contents) IN
         /\ wb_sel(ex.inst) = "PC4" => R = Add(ex.pc, 4)
         /\ wb_sel(ex.inst) = "CSR" => R = old
         /\ wb_sel(ex.inst) = "MEM" => R = IF aluOfEx <= DTOP
                                          THEN stored[aluOfEx \div 4] ELSE 0
         /\ wb_sel(ex.inst) \notin {"PC4", "CSR", "MEM"} => R = aluOfEx
<1> DEFINE i == ex.inst
           a == settled(i.rs1)
           b == settled(i.rs2)
           R == Result(i, a, b, ex.pc, old, contents)
<1>0. ~inst_kill_branch /\ a \in Word /\ b \in Word /\ i.imm \in Word /\ ex.pc \in Word
  BY Operands DEF inst_kill
<1>1. CASE i.op \in {"JAL", "JALR"}
  <2>1. R = Add(ex.pc, 4) BY <1>1 DEF Result, isJump, isCsr, CsrOps
  <2>2. wb_sel(i) = "PC4" BY <1>1 DEF wb_sel, CsrOps
  <2> QED BY <2>1, <2>2
<1>2. CASE i.op \in CsrOps
  <2>1. R = old BY <1>2 DEF Result, isJump, isCsr, CsrOps
  <2>2. wb_sel(i) = "CSR" BY <1>2 DEF wb_sel, CsrOps
  <2> QED BY <2>1, <2>2
<1>3. CASE i.op = "LW"
  <2>1. R = contents[aluOfEx \div 4]
    BY <1>3, AccessOfEx DEF Result, isJump, isCsr, CsrOps, isMem
  <2>2. aluOfEx \div 4 \in Word /\ (aluOfEx <= DTOP <=> aluOfEx \div 4 \in DmemIndex)
    BY <1>3, AccessOfEx DEF isMem
  <2>3. R = IF aluOfEx <= DTOP THEN stored[aluOfEx \div 4] ELSE 0
    BY <2>1, <2>2 DEF contents
  <2>4. wb_sel(i) = "MEM" BY <1>3 DEF wb_sel, CsrOps
  <2> QED BY <2>3, <2>4
<1>4. CASE i.op \in {"LUI", "AUIPC", "ADDI", "ADD", "SUB", "SLTU"}
  <2>1. wb_sel(i) = "ALU" BY <1>4 DEF wb_sel, CsrOps
  <2>2. CASE i.op = "LUI"
    <3>1. aluOfEx = i.imm
      BY <2>2 DEF aluOfEx, AluOut, alu_func, ex_op2, alu_op2,
                      CondBranches, CsrOps, SystemOps
    <3>2. R = i.imm BY <2>2 DEF Result, isJump, isCsr, CsrOps
    <3> QED BY <2>1, <3>1, <3>2
  <2>3. CASE i.op = "AUIPC"
    <3>1. R = Add(ex.pc, i.imm) BY <2>3 DEF Result, isJump, isCsr, CsrOps
    <3> QED BY <1>0, <2>1, <2>3, <3>1, SumOfEx
  <2>4. CASE i.op = "ADDI"
    <3>1. R = Add(a, i.imm) BY <2>4 DEF Result, isJump, isCsr, CsrOps
    <3> QED BY <1>0, <2>1, <2>4, <3>1, SumOfEx
  <2>5. CASE i.op \in {"ADD", "SUB"}
    <3>1. ex_op1 = a /\ ex_op2 = b
      BY <1>0, <2>5, Operands DEF ex_op1, ex_op2, alu_op1, alu_op2, SystemOps
    <3>2. alu_func(i) = i.op BY <2>5 DEF alu_func, CondBranches, CsrOps
    <3>3. aluOfEx = IF i.op = "ADD" THEN Add(a, b) ELSE Sub(a, b)
      BY <2>5, <3>1, <3>2 DEF aluOfEx, AluOut, Sum, isSub
    <3>4. R = IF i.op = "ADD" THEN Add(a, b) ELSE (a - b) % WORD
      BY <2>5 DEF Result, isJump, isCsr, CsrOps
    <3>5. Sub(a, b) = (a - b) % WORD BY <1>0, SubModulo
    <3> QED BY <2>1, <3>3, <3>4, <3>5
  <2>6. CASE i.op = "SLTU"
    <3>1. R = IF a < b THEN 1 ELSE 0 BY <2>6 DEF Result, isJump, isCsr, CsrOps
    <3> QED BY <1>0, <2>1, <2>6, <3>1, ComparisonOfEx
  <2> QED BY <1>4, <2>2, <2>3, <2>4, <2>5, <2>6
<1> QED BY <1>1, <1>2, <1>3, <1>4 DEF rf_wen
---------------------------------------------------------------------------
(* What MEM and WB have still to write comes out of them unchanged, if the *)
(* memory carries out the store in MEM when MEM moves on, or before, and   *)
(* gives a load in WB its word when WB moves on.                           *)
MemoryServes(wt) ==
  /\ dmem' \in {dmem, stored}
  /\ ~wt => dmem' = stored
  /\ mem_wr(wb.inst) = "XRD" =>
       IF wt THEN dmem' = dmem ELSE dmem_data = loaded(wb.alu)

(* A store that has been carried out may be carried out again. *)
LEMMA StoredTwice ==
  ASSUME IInv, dmem' \in {dmem, stored}, mem' = mem
  PROVE  stored' = stored
<1>1. dmem \in [DmemIndex -> Word] BY DEF IInv, TInv, TypeOK
<1> QED BY <1>1 DEF stored

(* MEM holds a load, so it stores nothing. *)
LEMMA LoadStoresNothing ==
  ASSUME NEW stage, stage = mem, wb_sel(stage.inst) = "MEM", IInv
  PROVE  stored = dmem
<1>1. mem_wr(mem.inst) = "XRD" BY DecodeFacts DEF IInv, TInv, TypeOK, InstsOK, MemType
<1> QED BY <1>1 DEF stored

(* A clock in which the pipeline waits. *)
LEMMA HeldStep ==
  ASSUME IInv, NEW w, NEW irq, Pipeline(w, irq), waitrequest(w), MemoryServes(TRUE)
  PROVE  Untouched
<1>1. mem' = mem /\ wb' = wb /\ RegFile
  BY DEF Pipeline, MemStage, WriteBackStage
<1>2. dmem' \in {dmem, stored} /\ (mem_wr(wb.inst) = "XRD" => dmem' = dmem)
  BY DEF MemoryServes
<1>3. stored' = stored BY <1>1, <1>2, StoredTwice
<1>4. result(mem)' = result(mem)
  <2>1. wb_sel(mem.inst) = "MEM" => dmem' = dmem BY <1>2, LoadStoresNothing
  <2> QED BY <1>1, <2>1 DEF result, loaded
<1>5. result(wb)' = result(wb)
  <2>1. wb_sel(wb.inst) = "MEM" => dmem' = dmem
    BY <1>2, DecodeFacts DEF IInv, TInv, TypeOK, InstsOK, WbType
  <2> QED BY <1>1, <2>1 DEF result, loaded
<1>6. ASSUME NEW r \in RegField PROVE settled(r)' = settled(r)
  <2>1. ~writes(wb, r) => rv32i_reg'[r] = rv32i_reg[r]
    BY <1>1, RegFileKeeps DEF IInv
  <2>2. rv32i_reg'[0] = rv32i_reg[0] BY <1>1, RegFileKeeps DEF IInv
  <2>3. (writes(mem, r)' <=> writes(mem, r)) /\ (writes(wb, r)' <=> writes(wb, r))
    BY <1>1 DEF writes
  <2> QED BY <1>4, <1>5, <2>1, <2>2, <2>3 DEF settled
<1> QED BY <1>1, <1>3, <1>6 DEF Untouched

(* A clock in which the pipeline moves: every register that the            *)
(* instruction entering MEM does not write keeps its value.                *)
LEMMA MovedBehind ==
  ASSUME IInv, NEW w, NEW irq, Pipeline(w, irq), ~waitrequest(w), MemoryServes(FALSE),
         NEW r \in RegField
  PROVE  settled(r)' = IF r # 0 /\ writes(mem, r)' THEN result(mem)' ELSE settled(r)
<1>1. /\ wb' = [pc |-> mem.pc, inst |-> mem.inst, alu |-> mem.alu, csr |-> mem.csr]
      /\ RegFile
  BY DEF Pipeline, WriteBackStage
<1>2. dmem' = stored /\ (mem_wr(wb.inst) = "XRD" => dmem_data = loaded(wb.alu))
  BY DEF MemoryServes
<1>3. (~writes(wb, r) => rv32i_reg'[r] = rv32i_reg[r]) /\ rv32i_reg'[0] = rv32i_reg[0]
  BY <1>1, RegFileKeeps DEF IInv
<1>4. writes(wb, r) /\ r # 0 => rv32i_reg'[r] = result(wb)
  <2>1. wb_sel(wb.inst) = "MEM" => dmem_data = loaded(wb.alu)
    BY <1>2, DecodeFacts DEF IInv, TInv, TypeOK, InstsOK, WbType
  <2>2. rf_wdata = result(wb) BY <2>1 DEF rf_wdata, result
  <2>3. rv32i_reg \in [RegField -> Word] BY DEF IInv, TInv, TypeOK
  <2> QED BY <1>1, <2>2, <2>3 DEF RegFile, writes
<1>5. (writes(wb, r)' <=> writes(mem, r)) /\ result(wb)' = result(mem)
  <2>1. wb_sel(mem.inst) = "MEM" => dmem' = dmem BY <1>2, LoadStoresNothing
  <2>2. wb'.inst = mem.inst /\ wb'.pc = mem.pc /\ wb'.alu = mem.alu /\ wb'.csr = mem.csr
    BY <1>1
  <2>3. wb_sel(mem.inst) = "MEM" => loaded(wb.alu)' = loaded(mem.alu)
    BY <2>1, <2>2 DEF loaded
  <2> QED BY <2>2, <2>3 DEF writes, result
<1> QED BY <1>3, <1>4, <1>5 DEF settled

(* What is killed in EX leaves no trace. *)
LEMMA KilledStep ==
  ASSUME IInv, NEW w, NEW irq, Pipeline(w, irq), ~waitrequest(w), MemoryServes(FALSE),
         inst_kill
  PROVE  Untouched
<1>1. mem' = MemBubble BY DEF Pipeline, MemStage
<1>2. mem'.inst = NOP BY <1>1 DEF MemBubble
<1>3. ASSUME NEW r \in RegField PROVE settled(r)' = settled(r)
  <2>1. ~(r # 0 /\ writes(mem, r)') BY <1>2, NopFields DEF writes
  <2> QED BY <2>1, MovedBehind
<1>4. stored' = stored
  <2>1. stored' = dmem' BY <1>2, NopFields DEF stored
  <2> QED BY <2>1 DEF MemoryServes
<1> QED BY <1>1, <1>3, <1>4 DEF Untouched

(* What passes EX has the effect it means. *)
LEMMA PassedStep ==
  ASSUME IInv, NEW w, NEW irq, Pipeline(w, irq), ~waitrequest(w), MemoryServes(FALSE),
         ~inst_kill
  PROVE  Executed
<1> DEFINE i == ex.inst
           a == settled(i.rs1)
           b == settled(i.rs2)
           old == CsrOut(csr, i.csr)
           next == NextPc(i, a, b, ex.pc, csr'.mepc)
           R == Result(i, a, b, ex.pc, old, contents)
<1>1. /\ mem'.pc = ex.pc /\ mem'.inst = i /\ mem'.rs2 = rs2_bypass
      /\ mem'.alu = aluOfEx /\ mem'.cmp = cmpOfEx /\ mem'.csr = old
  BY DEF Pipeline, MemStage, aluOfEx, cmpOfEx
<1>2. dmem' = stored BY DEF MemoryServes
<1>3. ~inst_kill_branch BY DEF inst_kill
<1>4. rs2_bypass = b BY <1>3, Operands
<1>5. nextOfMem' = next
  <2>1. nextOfMem' = CASE br_type(i) = "RET" -> csr'.mepc
                       [] br_type(i) = "COND" /\ cmpOfEx -> Add(ex.pc, i.imm)
                       [] br_type(i) \in {"J", "JR"} -> aluOfEx
                       [] OTHER -> Add(ex.pc, 4)
    BY <1>1 DEF nextOfMem
  <2>2. CASE isBranch(i)
    <3>1. br_type(i) = "COND" BY <2>2 DEF br_type, isBranch, CondBranches
    <3>2. cmpOfEx <=> Taken(i, a, b) BY <1>3, <2>2, ComparisonOfEx DEF isBranch
    <3>3. Target(i, a, ex.pc) = Add(ex.pc, i.imm)
      BY <2>2 DEF Target, isBranch, CondBranches
    <3>4. ~isJump(i) /\ i.op # "MRET" BY <2>2 DEF isBranch, isJump, CondBranches
    <3>5. next = IF Taken(i, a, b) THEN Target(i, a, ex.pc) ELSE Add(ex.pc, 4)
      BY <2>2, <3>4 DEF NextPc
    <3>6. nextOfMem' = IF cmpOfEx THEN Add(ex.pc, i.imm) ELSE Add(ex.pc, 4)
      BY <2>1, <3>1
    <3> QED BY <3>2, <3>3, <3>5, <3>6
  <2>3. CASE isJump(i)
    <3>1. br_type(i) \in {"J", "JR"} BY <2>3 DEF br_type, isJump, CondBranches
    <3>2. aluOfEx = Target(i, a, ex.pc) BY <2>3, JumpOfEx
    <3>3. ~isBranch(i) BY <2>3 DEF isBranch, isJump, CondBranches
    <3>4. next = Target(i, a, ex.pc) BY <2>3, <3>3 DEF NextPc, isJump
    <3>5. nextOfMem' = aluOfEx BY <2>1, <3>1
    <3> QED BY <3>2, <3>4, <3>5
  <2>4. CASE i.op = "MRET"
    BY <2>1, <2>4 DEF NextPc, br_type, isJump, isBranch, CondBranches
  <2>5. CASE ~isBranch(i) /\ ~isJump(i) /\ i.op # "MRET"
    <3>1. br_type(i) = "N" BY <2>5 DEF br_type, isBranch, isJump
    <3> QED BY <2>1, <2>5, <3>1 DEF NextPc
  <2> QED BY <2>2, <2>3, <2>4, <2>5
<1>6. ASSUME NEW r \in RegField
      PROVE  settled(r)' = IF WritesRd(i) /\ r = i.rd /\ r # 0 THEN R ELSE settled(r)
  <2>1. writes(mem, r)' <=> WritesRd(i) /\ r = i.rd
    BY <1>1 DEF writes, rf_wen, WritesRd
  <2>2. rf_wen(i) => result(mem)' = R
    <3> SUFFICES ASSUME rf_wen(i) PROVE result(mem)' = R OBVIOUS
    <3>1. /\ wb_sel(i) = "PC4" => R = Add(ex.pc, 4)
          /\ wb_sel(i) = "CSR" => R = old
          /\ wb_sel(i) = "MEM" => R = IF aluOfEx <= DTOP
                                         THEN stored[aluOfEx \div 4] ELSE 0
          /\ wb_sel(i) \notin {"PC4", "CSR", "MEM"} => R = aluOfEx
      BY ResultOfEx
    <3>2. loaded(mem.alu)' = IF aluOfEx <= DTOP THEN stored[aluOfEx \div 4] ELSE 0
      BY <1>1, <1>2 DEF loaded
    <3>3. result(mem)' = CASE wb_sel(i) = "PC4" -> Add(ex.pc, 4)
                           [] wb_sel(i) = "CSR" -> old
                           [] wb_sel(i) = "MEM" -> loaded(mem.alu)'
                           [] OTHER -> aluOfEx
      BY <1>1 DEF result
    <3> HIDE DEF R, old
    <3> QED BY <3>1, <3>2, <3>3
  <2>3. WritesRd(i) => rf_wen(i) BY DEF WritesRd, rf_wen
  <2> HIDE DEF R
  <2> QED BY <2>1, <2>2, <2>3, MovedBehind
<1>7. stored' = [k \in DmemIndex |-> IF i.op = "SW" /\ k = Add(a, i.imm) \div 4
                                      THEN b ELSE stored[k]]
  <2>1. stored \in [DmemIndex -> Word]
    BY AccessType DEF stored, IInv, TInv, TypeOK
  <2>2. CASE i.op # "SW"
    <3>1. stored' = stored BY <1>1, <1>2, <2>2 DEF stored, mem_wr
    <3> QED BY <2>1, <2>2, <3>1
  <2>3. CASE i.op = "SW"
    <3>1. /\ aluOfEx = Add(a, i.imm)
          /\ aluOfEx <= DTOP <=> aluOfEx \div 4 \in DmemIndex
      BY <2>3, AccessOfEx DEF isMem
    <3>2. stored' = IF aluOfEx <= DTOP THEN [stored EXCEPT ![aluOfEx \div 4] = b]
                                       ELSE stored
      BY <1>1, <1>2, <1>4, <2>3 DEF stored, mem_wr
    <3> HIDE DEF a, b
    <3> QED BY <2>1, <2>3, <3>1, <3>2
  <2> QED BY <2>2, <2>3
<1>8. isMem(i) \/ isJump(i) => CauseOf(i, a, ex.pc) = NoCause BY NoCauseOfEx
<1> HIDE DEF a, b, old
<1> QED BY <1>1, <1>5, <1>6, <1>7, <1>8 DEF Executed, a, b, old

(* So every clock carries out the instruction in EX or changes nothing. *)
LEMMA EffectStep ==
  ASSUME IInv, NEW w, NEW irq, Pipeline(w, irq), MemoryServes(waitrequest(w))
  PROVE  Executed \/ Untouched
<1>1. waitrequest(w) \in BOOLEAN BY DEF waitrequest
<1>2. CASE waitrequest(w)
  BY <1>2, HeldStep DEF MemoryServes
<1>3. CASE ~waitrequest(w)
  <2>1. MemoryServes(FALSE) BY <1>3 DEF MemoryServes
  <2> QED BY <1>3, <2>1, KilledStep, PassedStep
<1> QED BY <1>2, <1>3

LEMMA EffectStutter == ASSUME UNCHANGED vars PROVE Untouched
<1>1. /\ mem' = mem /\ wb' = wb /\ rv32i_reg' = rv32i_reg /\ dmem' = dmem
  BY DEF vars, decodeVars
<1>2. stored' = stored BY <1>1 DEF stored
<1>3. result(mem)' = result(mem) /\ result(wb)' = result(wb)
  BY <1>1 DEF result, loaded
<1>4. ASSUME NEW r PROVE settled(r)' = settled(r)
  BY <1>1, <1>3 DEF settled, writes
<1> QED BY <1>1, <1>2, <1>4 DEF Untouched
---------------------------------------------------------------------------
(* The test bus.  An answer on the bus is for the load in WB, if there is  *)
(* no other access behind it.                                              *)
Near(stage) == mem_wr(stage.inst) = "XRD" /\ stage.alu <= DTOP
For(stage)  == Near(stage) /\ dmem_raddr = stage.alu \div 4

LoadAnswered ==
  mem_wr(wb.inst) = "XRD" /\ ~isMemOp(mem.inst) /\ dmem_ack => For(wb)

LEMMA LoadAnsweredStep ==
  ASSUME NEW w, NEW irq, Cycle(w, irq) PROVE LoadAnswered'
<1>1. WriteBackStage(waitrequest(w)) /\ MemStage(inst_kill, waitrequest(w)) /\ DmemClock
  BY DEF Cycle, Pipeline
<1>2. dmem_ack' => Near(mem) /\ dmem_raddr' = mem.alu \div 4
  BY <1>1 DEF DmemClock, Near
<1>3. CASE waitrequest(w)
  <2>1. mem' = mem BY <1>1, <1>3 DEF MemStage
  <2>2. Near(mem) => isMemOp(mem.inst)' BY <2>1 DEF Near, isMemOp
  <2> QED BY <1>2, <2>2 DEF LoadAnswered
<1>4. CASE ~waitrequest(w)
  <2>1. wb'.inst = mem.inst /\ wb'.alu = mem.alu BY <1>1, <1>4 DEF WriteBackStage
  <2> QED BY <1>2, <2>1 DEF LoadAnswered, For, Near
<1> QED BY <1>3, <1>4

LEMMA BusServes ==
  ASSUME LoadAnswered, LoadsApart, NEW w, NEW irq, Cycle(w, irq)
  PROVE  MemoryServes(waitrequest(w))
<1>1. dmem' = stored BY DEF Cycle, DmemClock, stored
<1>2. ASSUME mem_wr(wb.inst) = "XRD", waitrequest(w) PROVE dmem' = dmem
  BY <1>1, <1>2 DEF LoadsApart, isMemOp, stored
<1>3. ASSUME mem_wr(wb.inst) = "XRD", ~waitrequest(w) PROVE dmem_data = loaded(wb.alu)
  BY <1>3 DEF waitrequest, dmem_rd_wait, LoadAnswered, LoadsApart, For, Near,
              dmem_data, loaded
<1> QED BY <1>1, <1>2, <1>3 DEF MemoryServes

(***************************************************************************)
(* On the test bus, whatever it makes the core wait for and whenever       *)
(* interrupts come, each clock carries out the instruction in EX as the    *)
(* instruction set says or changes nothing for the program, for every      *)
(* program that keeps a load apart from the access behind it, every memory *)
(* and every word width (core.scala 329-348, 404-514, 588-608).            *)
(***************************************************************************)
THEOREM EffectsOnBus == Spec => EffectsCorrect
<1>1. Init => LoadAnswered
  BY DEF Init, ResetState, LoadAnswered
<1>2. IInv /\ LoadAnswered /\ [Next]_vars
        => LoadAnswered' /\ [LoadsApart => Executed \/ Untouched]_vars
  <2>1. CASE UNCHANGED vars
    BY <2>1 DEF vars, decodeVars, LoadAnswered, For, Near, isMemOp
  <2>2. ASSUME IInv, LoadAnswered, NEW w, NEW irq, Cycle(w, irq)
        PROVE  LoadAnswered' /\ (LoadsApart => Executed \/ Untouched)
    <3>1. Pipeline(w, irq) BY <2>2 DEF Cycle
    <3> QED BY <2>2, <3>1, LoadAnsweredStep, BusServes, EffectStep
  <2> QED BY <2>1, <2>2 DEF Next
<1> QED BY <1>1, <1>2, IInvInvariant, PTL DEF Spec, EffectsCorrect

(* Without waits on the bus every load that hits is answered when it is in *)
(* WB, so accesses may follow each other closely.                          *)
AnsweredAtOnce == Near(wb) => dmem_ack /\ For(wb)

LEMMA AnsweredAtOnceStep ==
  ASSUME AnsweredAtOnce, NEW irq, Cycle(FALSE, irq) PROVE AnsweredAtOnce'
<1>1. WriteBackStage(waitrequest(FALSE)) /\ DmemClock
  BY DEF Cycle, Pipeline
<1>2. CASE waitrequest(FALSE)
  <2>1. mem_wr(wb.inst) = "XRD" /\ ~dmem_ack BY <1>2 DEF waitrequest, dmem_rd_wait
  <2>2. ~Near(wb) BY <2>1 DEF AnsweredAtOnce
  <2>3. wb' = wb BY <1>1, <1>2 DEF WriteBackStage
  <2> QED BY <2>2, <2>3 DEF AnsweredAtOnce, Near
<1>3. CASE ~waitrequest(FALSE)
  <2>1. wb'.inst = mem.inst /\ wb'.alu = mem.alu BY <1>1, <1>3 DEF WriteBackStage
  <2>2. Near(mem) => dmem_ack' /\ dmem_raddr' = mem.alu \div 4
    BY <1>1 DEF DmemClock, Near
  <2> QED BY <2>1, <2>2 DEF AnsweredAtOnce, For, Near
<1> QED BY <1>2, <1>3

(***************************************************************************)
(* Where the bus never waits, the same holds of every program: loads and   *)
(* stores may follow a load at once, as long as the load in WB is from an  *)
(* address of the memory (core.scala 117, DMem.scala).                     *)
(***************************************************************************)
THEOREM EffectsWithoutWaits ==
  ASSUME WaitInputs = {FALSE}
  PROVE  Spec => [][(mem_wr(wb.inst) = "XRD" => wb.alu <= DTOP)
                      => Executed \/ Untouched]_vars
<1> DEFINE Effects == (mem_wr(wb.inst) = "XRD" => wb.alu <= DTOP)
                        => Executed \/ Untouched
<1>1. Init => AnsweredAtOnce
  BY NopFields DEF Init, ResetState, WbBubble, AnsweredAtOnce, Near
<1>2. IInv /\ AnsweredAtOnce /\ [Next]_vars => AnsweredAtOnce' /\ [Effects]_vars
  <2>1. CASE UNCHANGED vars
    BY <2>1 DEF vars, decodeVars, AnsweredAtOnce, For, Near
  <2>2. ASSUME IInv, AnsweredAtOnce, NEW irq, Cycle(FALSE, irq)
        PROVE  AnsweredAtOnce' /\ Effects
    <3>1. AnsweredAtOnce' BY <2>2, AnsweredAtOnceStep
    <3>2. ASSUME mem_wr(wb.inst) = "XRD" => wb.alu <= DTOP
          PROVE  MemoryServes(waitrequest(FALSE))
      <4>1. dmem' = stored BY <2>2 DEF Cycle, DmemClock, stored
      <4>2. ~waitrequest(FALSE)
        BY <2>2, <3>2 DEF waitrequest, dmem_rd_wait, AnsweredAtOnce, Near
      <4>3. mem_wr(wb.inst) = "XRD" => dmem_data = loaded(wb.alu)
        BY <2>2, <3>2 DEF AnsweredAtOnce, For, Near, dmem_data, loaded
      <4> QED BY <4>1, <4>2, <4>3 DEF MemoryServes
    <3>3. Pipeline(FALSE, irq) BY <2>2 DEF Cycle
    <3> QED BY <2>2, <3>1, <3>2, <3>3, EffectStep
  <2> QED BY <2>1, <2>2 DEF Next
<1> QED BY <1>1, <1>2, IInvInvariant, PTL DEF Spec
---------------------------------------------------------------------------
(* Behind the Avalon-MM wrapper: what a data slave owes or gives is for    *)
(* the load in WB, if there is no other access behind it.                  *)
OwedToLoad ==
  mem_wr(wb.inst) = "XRD" /\ ~isMemOp(mem.inst) =>
    /\ pending # NoRead => Near(wb) /\ pending = wb.alu \div 4
    /\ dmem_ack => For(wb)

LEMMA OwedToLoadStep ==
  ASSUME OwedToLoad, NEW iw, NEW dw, NEW late, AvalonCycle(iw, dw, late)
  PROVE  OwedToLoad'
<1> DEFINE w == imem_waits(iw) \/ dmem_waits(dw)
           asked == IF accepts(dw, "XRD") THEN mem.alu \div 4 ELSE pending
<1>1. WriteBackStage(waitrequest(w)) /\ MemStage(inst_kill, waitrequest(w))
  BY DEF AvalonCycle, Pipeline
<1>2. \/ asked # NoRead /\ dmem_ack' = TRUE /\ dmem_raddr' = asked /\ pending' = NoRead
      \/ dmem_ack' = FALSE /\ pending' = asked /\ dmem_raddr' = dmem_raddr
  BY DEF AvalonCycle, DataSlave
<1>3. CASE waitrequest(w)
  <2>1. mem' = mem /\ wb' = wb BY <1>1, <1>3 DEF MemStage, WriteBackStage
  <2>2. ~isMemOp(mem.inst) => asked = pending BY DEF accepts, isMemOp
  <2> HIDE DEF asked
  <2> QED BY <1>2, <2>1, <2>2 DEF OwedToLoad, For, Near, isMemOp
<1>4. CASE ~waitrequest(w)
  <2>1. wb'.inst = mem.inst /\ wb'.alu = mem.alu BY <1>1, <1>4 DEF WriteBackStage
  <2>2. ~dmem_waits(dw) BY <1>4 DEF waitrequest
  <2>3. mem_wr(mem.inst) = "XRD" /\ asked # NoRead => Near(mem) /\ asked = mem.alu \div 4
    BY <2>2 DEF accepts, dmem_waits, isMemOp, Near
  <2> HIDE DEF asked
  <2> QED BY <1>2, <2>1, <2>3 DEF OwedToLoad, For, Near
<1> HIDE DEF w
<1> QED BY <1>3, <1>4

LEMMA SlaveServes ==
  ASSUME OwedToLoad, LoadsApart, NEW iw, NEW dw, NEW late, AvalonCycle(iw, dw, late)
  PROVE  MemoryServes(waitrequest(imem_waits(iw) \/ dmem_waits(dw)))
<1> DEFINE wt == waitrequest(imem_waits(iw) \/ dmem_waits(dw))
<1>1. dmem' = IF accepts(dw, "XWR") THEN [dmem EXCEPT ![mem.alu \div 4] = mem.rs2]
              ELSE dmem
  BY DEF AvalonCycle, DataSlave
<1>2. dmem' \in {dmem, stored} BY <1>1 DEF accepts, stored
<1>3. ~wt => dmem' = stored
  BY <1>1 DEF waitrequest, accepts, stored
<1>4. mem_wr(wb.inst) = "XRD" => dmem' = dmem
  BY <1>1 DEF accepts, LoadsApart, isMemOp
<1>5. mem_wr(wb.inst) = "XRD" /\ ~wt => dmem_data = loaded(wb.alu)
  BY DEF waitrequest, dmem_rd_wait, OwedToLoad, LoadsApart, For, Near, dmem_data, loaded
<1> QED BY <1>2, <1>3, <1>4, <1>5 DEF MemoryServes

(***************************************************************************)
(* Behind the wrapper, whatever the slaves' waits and delays, each clock   *)
(* carries out the instruction in EX as the instruction set says or        *)
(* changes nothing for the program, for every program that keeps a load    *)
(* apart from the access behind it (core.scala 329-348, 404-514,           *)
(* 588-608, kyogenrv_fpga_avalonMM.sv).                                    *)
(***************************************************************************)
THEOREM EffectsBehindWrapper == AvalonSpec => EffectsCorrect
<1>1. AvalonInit => OwedToLoad
  BY NopFields DEF AvalonInit, Init, ResetState, WbBubble, OwedToLoad
<1>2. AvalonInv /\ OwedToLoad /\ [AvalonNext]_avalonVars
        => OwedToLoad' /\ [LoadsApart => Executed \/ Untouched]_vars
  <2>1. CASE UNCHANGED avalonVars
    BY <2>1 DEF avalonVars, vars, decodeVars, OwedToLoad, For, Near, isMemOp
  <2>2. ASSUME AvalonInv, OwedToLoad, NEW iw, NEW dw, NEW late, AvalonCycle(iw, dw, late)
        PROVE  OwedToLoad' /\ (LoadsApart => Executed \/ Untouched)
    <3>1. Pipeline(imem_waits(iw) \/ dmem_waits(dw), FALSE) BY <2>2 DEF AvalonCycle
    <3> QED BY <2>2, <3>1, OwedToLoadStep, SlaveServes, EffectStep DEF AvalonInv
  <2> QED BY <2>1, <2>2 DEF AvalonNext
<1> QED BY <1>1, <1>2, AvalonInvariant, PTL DEF AvalonSpec, EffectsCorrect
=============================================================================
