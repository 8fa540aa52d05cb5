---------------------------- MODULE KyogenRVCpu ----------------------------
(***************************************************************************)
(* Class KyogenRVCpu (core.scala) with the memories it is attached to in   *)
(* class CpuBus (IMem.scala, DMem.scala): the five-stage pipeline, one     *)
(* step per rising clock edge, from the release of reset on.               *)
(*                                                                         *)
(* A pipeline register is a record.  The source's id_npc, ex_npc and so on *)
(* always hold the address plus 4, and ex_ctrl, ex_reg_raddr, ex_csr_addr, *)
(* mem_ctrl, ... always hold what the decoder says of the instruction they *)
(* arrived with, so a stage keeps the address and the instruction and the  *)
(* control signals are derived.  Loads and stores are whole words here;    *)
(* the byte lanes are in DMemLanes.                                        *)
(***************************************************************************)
EXTENDS KyogenCSR

CONSTANTS
  ITOP,          \* last address IMem answers (0x3000 in the source)
  DTOP,          \* last address DMem answers (0x3000 in the source)
  Programs,      \* the programs the loader may have left in IMem
  Images,        \* the contents it may have left in DMem
  WaitInputs,    \* values the bus may drive on w_waitrequest_sig/w_datawaitreq_sig
  IrqInputs      \* values the environment may drive on w_interrupt_sig

ImemIndex == 0 .. ITOP \div 4
DmemIndex == 0 .. DTOP \div 4

(* CSRRS and CSRRC appear only as reads (rs1 = x0) in these programs; their *)
(* bitwise writes are checked on the CSR unit alone.                       *)
Runnable(i) == /\ i \in Inst /\ WellFormed(i)
               /\ i.op \in {"CSRRS", "CSRRC"} => i.rs1 = 0

ASSUME MemAssumption == ITOP \in Word /\ DTOP \in Word
ASSUME ProgramAssumption ==
  /\ Programs \subseteq [ImemIndex -> Inst]
  /\ \A p \in Programs : \A k \in ImemIndex : Runnable(p[k])
  /\ Images \subseteq [DmemIndex -> Word]
ASSUME InputAssumption == WaitInputs \subseteq BOOLEAN /\ IrqInputs \subseteq BOOLEAN

VARIABLES
  imem,                      \* the program, Inst by word index
  imem_ack, imem_data,       \* IMem's registered answer
  dmem,                      \* data memory, Word by word index
  dmem_ack, dmem_raddr,      \* DMem's answer: registered acknowledge, read address
  w_req, imem_read_sig,      \* start-up: imem write request, its inverse a clock later
  imem_read_dly,             \* RegNext(imem_read_sig)
  delay_stall,               \* start-up stall counter
  pc_cntr, if_pc,            \* fetch address, address of the fetch in flight
  imem_req, valid_imem,      \* fetch request, "its answer is wanted"
  id, id_temp, id_temp2,     \* ID register and its two save slots
  temp_lock, in_loadstore,   \* save slots taken; a load/store passed MEM
  ex, mem, wb,               \* EX, MEM and WB pipeline registers
  rv32i_reg,                 \* x0 .. x31
  interrupt_sig              \* synchroniser of the external interrupt line

fetchVars == <<imem, imem_ack, imem_data, w_req, imem_read_sig, imem_read_dly,
               delay_stall, pc_cntr, if_pc, imem_req, valid_imem>>
decodeVars == <<id, id_temp, id_temp2, temp_lock, in_loadstore>>
vars == <<fetchVars, decodeVars, dmem, dmem_ack, dmem_raddr,
          ex, mem, wb, rv32i_reg, interrupt_sig, csr>>

pc_ini == 0                                   \* PC_INITS.PC_START

IdBubble  == [pc |-> pc_ini, inst |-> NOP]
ExBubble  == [pc |-> pc_ini, inst |-> NOP, rs1 |-> 0, rs2 |-> 0]
MemBubble == [pc |-> pc_ini, inst |-> NOP, rs2 |-> 0, alu |-> 0,
              cmp |-> FALSE, csr |-> 0]
WbBubble  == [pc |-> pc_ini, inst |-> NOP, alu |-> 0, csr |-> 0]

IdType  == [pc : Word, inst : Inst]
ExType  == [pc : Word, inst : Inst, rs1 : Word, rs2 : Word]
MemType == [pc : Word, inst : Inst, rs2 : Word, alu : Word,
            cmp : BOOLEAN, csr : Word]
WbType  == [pc : Word, inst : Inst, alu : Word, csr : Word]

TypeOK ==
  /\ imem \in [ImemIndex -> Inst] /\ imem_ack \in BOOLEAN /\ imem_data \in Inst
  /\ dmem \in [DmemIndex -> Word] /\ dmem_ack \in BOOLEAN /\ dmem_raddr \in DmemIndex
  /\ w_req \in BOOLEAN /\ imem_read_sig \in BOOLEAN /\ imem_read_dly \in BOOLEAN
  /\ delay_stall \in 0 .. 7
  /\ pc_cntr \in Word /\ if_pc \in Word
  /\ imem_req \in BOOLEAN /\ valid_imem \in BOOLEAN
  /\ id \in IdType /\ id_temp \in IdType /\ id_temp2 \in IdType
  /\ temp_lock \in BOOLEAN /\ in_loadstore \in BOOLEAN
  /\ ex \in ExType /\ mem \in MemType /\ wb \in WbType
  /\ rv32i_reg \in [RegField -> Word]
  /\ interrupt_sig \in BOOLEAN
  /\ csr \in CsrType

(* Reset values; the program and the data are what the loader left. *)
ResetState ==
  /\ imem_ack = FALSE /\ imem_data = NOP
  /\ dmem_ack = FALSE /\ dmem_raddr = 0
  /\ w_req = TRUE /\ imem_read_sig = FALSE /\ imem_read_dly = FALSE
  /\ delay_stall = 0
  /\ pc_cntr = pc_ini /\ if_pc = pc_ini
  /\ imem_req = FALSE /\ valid_imem = TRUE
  /\ id = IdBubble /\ id_temp = IdBubble /\ id_temp2 = IdBubble
  /\ temp_lock = FALSE /\ in_loadstore = FALSE
  /\ ex = ExBubble /\ mem = MemBubble /\ wb = WbBubble
  /\ rv32i_reg = [r \in RegField |-> 0]
  /\ interrupt_sig = FALSE
  /\ CsrInit

Init ==
  /\ imem \in Programs
  /\ dmem \in Images
  /\ ResetState
---------------------------------------------------------------------------
(* Combinational logic.                                                    *)
isMemOp(i) == mem_wr(i) # "X"

loadstore_in_pipe == isMemOp(ex.inst) \/ isMemOp(mem.inst)
loadstore_proc    == isMemOp(mem.inst) \/ isMemOp(wb.inst)

(* SyncReadMem registers the address, so the data follow later writes. *)
dmem_data == dmem[dmem_raddr]

(* Mutant: a load in WB does not hold the pipeline. *)
waitrequestBusOnly(w) == w

(* Mutant: stores wait for an acknowledge as well. *)
any_wait == isMemOp(wb.inst) /\ ~dmem_ack

(* A load in WB whose answer is not on the bus holds the whole pipeline.   *)
dmem_rd_wait   == mem_wr(wb.inst) = "XRD" /\ ~dmem_ack
waitrequest(w) == w \/ dmem_rd_wait

(* ex_reg_rs1_bypass, ex_reg_rs2_bypass: the newest value of register r,   *)
(* v being what ID read from the register file.                            *)
Bypass(r, v) ==
  IF r # 0 /\ r = mem.inst.rd /\ csr_cmd(mem.inst) # "N" THEN mem.csr
  ELSE IF r # 0 /\ r = mem.inst.rd /\ rf_wen(mem.inst)   THEN mem.alu
  ELSE IF r # 0 /\ r = wb.inst.rd /\ rf_wen(wb.inst)
       THEN IF csr_cmd(wb.inst) # "N" THEN wb.csr
            ELSE IF mem_en(wb.inst) THEN dmem_data ELSE wb.alu
  ELSE v

rs1_bypass == Bypass(ex.inst.rs1, ex.rs1)
rs2_bypass == Bypass(ex.inst.rs2, ex.rs2)

ex_op1 == CASE alu_op1(ex.inst) = "RS1" -> rs1_bypass
            [] alu_op1(ex.inst) = "PC"  -> ex.pc
            [] OTHER                    -> 0
ex_op2 == CASE alu_op2(ex.inst) = "RS2" -> rs2_bypass
            [] alu_op2(ex.inst) = "IMM" -> ex.inst.imm
            [] OTHER                    -> 0

(* The CSR operand has a forwarding network of its own, which looks at the *)
(* raw rd fields only.                                                     *)
csr_in ==
  IF isImmZ(ex.inst) THEN ex.inst.imm
  ELSE IF ex.inst.rs1 = mem.inst.rd
       THEN IF csr_cmd(mem.inst) # "N" THEN mem.csr ELSE mem.alu
  ELSE IF ex.inst.rs1 = wb.inst.rd
       THEN IF csr_cmd(wb.inst) # "N" THEN wb.csr ELSE wb.alu
  ELSE rs1_bypass

(* Mutant: a taken conditional branch kills nothing. *)
inst_kill_jump == br_type(mem.inst) \in {"JR", "J", "RET"}

inst_kill_branch == \/ br_type(mem.inst) = "COND" /\ mem.cmp
                    \/ br_type(mem.inst) \in {"JR", "J", "RET"}

pc_invalid == inst_kill_branch \/ ex.pc = pc_ini

CsrPort(st) == [inst |-> ex.inst, pc |-> ex.pc, in |-> csr_in,
                calc |-> Add(ex_op1, ex_op2), stall |-> st,
                pc_invalid |-> pc_invalid, irq |-> interrupt_sig]

csr_expt == expt(csr, CsrPort(FALSE))

(* Mutant: the instruction that traps goes on to MEM. *)
inst_killNoTrap == inst_kill_branch

inst_kill == inst_kill_branch \/ csr_expt

(* Mutant: ID does not wait for the register WB is writing. *)
stallNoWb ==
  \/ /\ ~inst_kill
     /\ \/ /\ ex.inst.rd \in {id.inst.rs1, id.inst.rs2}
           /\ mem_wr(mem.inst) = "XRD" \/ mem_wr(ex.inst) = "XRD"
        \/ br_type(id.inst) # "N" /\ br_type(ex.inst) # "N"
        \/ loadstore_in_pipe /\ br_type(id.inst) # "N"
  \/ delay_stall # 7

(* Mutant: the user of a load goes on behind it. *)
stallNoLoadUse ==
  \/ /\ ~inst_kill
     /\ \/ id.inst.rs1 # 0 /\ id.inst.rs1 = wb.inst.rd
        \/ id.inst.rs2 # 0 /\ id.inst.rs2 = wb.inst.rd
        \/ br_type(id.inst) # "N" /\ br_type(ex.inst) # "N"
        \/ loadstore_in_pipe /\ br_type(id.inst) # "N"
  \/ delay_stall # 7

stall ==
  \/ /\ ~inst_kill
     /\ \/ /\ ex.inst.rd \in {id.inst.rs1, id.inst.rs2}
           /\ mem_wr(mem.inst) = "XRD" \/ mem_wr(ex.inst) = "XRD"
        \/ id.inst.rs1 # 0 /\ id.inst.rs1 = wb.inst.rd
        \/ id.inst.rs2 # 0 /\ id.inst.rs2 = wb.inst.rd
        \/ br_type(id.inst) # "N" /\ br_type(ex.inst) # "N"
        \/ loadstore_in_pipe /\ br_type(id.inst) # "N"
  \/ delay_stall # 7

(* Write-back data. *)
rf_wdata == CASE wb_sel(wb.inst) = "PC4" -> Add(wb.pc, 4)
              [] wb_sel(wb.inst) = "CSR" -> wb.csr
              [] wb_sel(wb.inst) = "MEM" -> dmem_data
              [] OTHER                   -> wb.alu
---------------------------------------------------------------------------
(* The stages in one clock; st, kl and wt are the wires stall, inst_kill   *)
(* and waitrequest.                                                        *)
(* Mutant: the start-up counter does not stop at its last value. *)
StartupUnbounded ==
  /\ w_req' = FALSE
  /\ imem_read_sig' = ~w_req
  /\ imem_read_dly' = imem_read_sig
  /\ delay_stall' = IF ~imem_read_sig THEN 0 ELSE delay_stall + 1

Startup ==
  /\ w_req' = FALSE
  /\ imem_read_sig' = ~w_req
  /\ imem_read_dly' = imem_read_sig
  /\ delay_stall' = IF ~imem_read_sig THEN 0
                    ELSE IF delay_stall # 7 THEN delay_stall + 1 ELSE delay_stall

FetchStage(st, kl, wt) ==
  \/ /\ ~st /\ ~kl /\ ~wt /\ ~loadstore_in_pipe
     /\ if_pc' = pc_cntr
     /\ imem_req' = imem_read_dly
     /\ valid_imem' = TRUE
  \/ /\ kl /\ ~wt
     /\ if_pc' = pc_ini
     /\ imem_req' = imem_read_dly
     /\ valid_imem' = FALSE
  \/ /\ wt \/ (~kl /\ (st \/ loadstore_in_pipe))
     /\ imem_req' = (imem_req /\ ~loadstore_in_pipe)
     /\ valid_imem' = FALSE
     /\ UNCHANGED if_pc

(* IMem: the answer is registered, so it comes one clock after the request. *)
ImemClock ==
  /\ IF imem_req /\ pc_cntr <= ITOP
     THEN imem_ack' = TRUE /\ imem_data' = imem[pc_cntr \div 4]
     ELSE imem_ack' = FALSE /\ UNCHANGED imem_data
  /\ UNCHANGED imem

fetched  == [pc |-> if_pc, inst |-> imem_data]
valid_id == valid_imem /\ imem_ack

(* The fetched instruction cannot be taken: keep it, and what ID holds.    *)
Saving(st, kl, wt) ==
  /\ ~kl /\ ~temp_lock
  /\ \/ ~imem_req /\ imem_ack
     \/ (st \/ wt) /\ imem_req /\ valid_id

Save(st, kl, wt) ==
  /\ Saving(st, kl, wt)
  /\ id_temp' = fetched /\ id_temp2' = id
  /\ temp_lock' = TRUE
  /\ UNCHANGED id

Take(st, kl, wt) ==
  /\ imem_req /\ valid_id /\ ~st /\ ~kl /\ ~wt
  /\ id' = fetched
  /\ temp_lock' = FALSE
  /\ UNCHANGED <<id_temp, id_temp2>>

Flush(kl, wt) ==
  /\ imem_req /\ kl /\ ~wt
  /\ id' = IdBubble /\ id_temp' = IdBubble /\ id_temp2' = IdBubble
  /\ temp_lock' = (temp_lock /\ ~imem_ack)

(* Fetching again after an interruption: after a load or a store ID first  *)
(* goes back to what it held, then to the saved fetch.                     *)
Resuming(st, kl) == imem_req /\ ~valid_id /\ ~st /\ ~kl

ResumeHeld(st, kl) ==
  /\ Resuming(st, kl) /\ in_loadstore
  /\ id' = id_temp2
  /\ temp_lock' = FALSE
  /\ UNCHANGED <<id_temp, id_temp2>>

ResumeSaved(st, kl, wt) ==
  /\ Resuming(st, kl) /\ ~in_loadstore /\ ~wt
  /\ id' = IF id_temp2.pc = id_temp.pc /\ id_temp.pc # pc_ini
           THEN [id_temp EXCEPT !.pc = Add(@, 4)] ELSE id_temp
  /\ id_temp' = IdBubble /\ id_temp2' = IdBubble
  /\ temp_lock' = (temp_lock /\ ~imem_ack)

HoldId(st, kl, wt) ==
  /\ ~Saving(st, kl, wt)
  /\ ~(imem_req /\ valid_id /\ ~st /\ ~kl /\ ~wt)
  /\ ~(imem_req /\ kl /\ ~wt)
  /\ ~(Resuming(st, kl) /\ (in_loadstore \/ ~wt))
  /\ temp_lock' = (temp_lock /\ ~(imem_req /\ imem_ack))
  /\ UNCHANGED <<id, id_temp, id_temp2>>

DecodeStage(st, kl, wt) ==
  /\ \/ Save(st, kl, wt) \/ Take(st, kl, wt) \/ Flush(kl, wt)
     \/ ResumeHeld(st, kl) \/ ResumeSaved(st, kl, wt) \/ HoldId(st, kl, wt)
  /\ in_loadstore' = (isMemOp(mem.inst) \/ (in_loadstore /\ ~imem_req))

(* id_rs1, id_rs2 *)
ReadReg(r) == IF r = 0 THEN 0 ELSE rv32i_reg[r]

ExecuteStage(st, kl, wt) ==
  LET blocked == st \/ kl \/ loadstore_proc \/ in_loadstore IN
  \/ /\ ~wt /\ ~blocked
     /\ ex' = [pc |-> id.pc, inst |-> id.inst,
               rs1 |-> ReadReg(id.inst.rs1), rs2 |-> ReadReg(id.inst.rs2)]
  \/ ~wt /\ blocked /\ ex' = ExBubble
  \/ wt /\ UNCHANGED ex

(* Mutant: a store takes the data ID read. *)
MemStageOldData(kl, wt) ==
  \/ /\ ~wt /\ ~kl
     /\ mem' = [pc |-> ex.pc, inst |-> ex.inst, rs2 |-> ex.rs2,
                alu |-> AluOut(alu_func(ex.inst), ex_op1, ex_op2),
                cmp |-> cmp(alu_func(ex.inst), ex_op1, ex_op2),
                csr |-> CsrOut(csr, ex.inst.csr)]
  \/ ~wt /\ kl /\ mem' = MemBubble
  \/ wt /\ UNCHANGED mem

MemStage(kl, wt) ==
  \/ /\ ~wt /\ ~kl
     /\ mem' = [pc |-> ex.pc, inst |-> ex.inst, rs2 |-> rs2_bypass,
                alu |-> AluOut(alu_func(ex.inst), ex_op1, ex_op2),
                cmp |-> cmp(alu_func(ex.inst), ex_op1, ex_op2),
                csr |-> CsrOut(csr, ex.inst.csr)]
  \/ ~wt /\ kl /\ mem' = MemBubble
  \/ wt /\ UNCHANGED mem

(* DMem, driven by the MEM stage in every clock, waiting or not. *)
DmemClock ==
  LET hit == mem.alu <= DTOP IN
  /\ IF mem_wr(mem.inst) = "XRD" /\ hit
     THEN dmem_ack' = TRUE /\ dmem_raddr' = mem.alu \div 4
     ELSE dmem_ack' = FALSE /\ UNCHANGED dmem_raddr
  /\ IF mem_wr(mem.inst) = "XWR" /\ hit
     THEN dmem' = [dmem EXCEPT ![mem.alu \div 4] = mem.rs2]
     ELSE UNCHANGED dmem

(* Mutant: a stall holds WB as well. *)
WriteBackHeld(wt) ==
  wb' = IF wt \/ stall THEN wb
        ELSE [pc |-> mem.pc, inst |-> mem.inst, alu |-> mem.alu, csr |-> mem.csr]

WriteBackStage(wt) ==
  wb' = IF wt THEN wb
        ELSE [pc |-> mem.pc, inst |-> mem.inst, alu |-> mem.alu, csr |-> mem.csr]

(* withClock(invClock) surrounds the write only: the registers keep the    *)
(* clock they were declared under, so ID reads the old value in the clock  *)
(* of the write.  WB writes in every clock, waiting or not.                *)
RegFile ==
  rv32i_reg' = IF rf_wen(wb.inst) /\ wb.inst.rd # 0
               THEN [rv32i_reg EXCEPT ![wb.inst.rd] = rf_wdata]
               ELSE rv32i_reg

PcTarget ==
  IF csr_expt THEN csr.mtvec
  ELSE IF br_type(mem.inst) = "RET" THEN csr.mepc
  ELSE IF br_type(mem.inst) = "COND" /\ mem.cmp THEN Add(mem.pc, mem.inst.imm)
  ELSE IF br_type(mem.inst) \in {"J", "JR"} THEN mem.alu
  ELSE Add(pc_cntr, 4)

PcUpdate(st, wt) ==
  pc_cntr' = IF ~st /\ ~wt /\ imem_req THEN PcTarget ELSE pc_cntr

(* The core in one rising edge, w and irq being the levels of its inputs. *)
Pipeline(w, irq) ==
  LET st == stall
      kl == inst_kill
      wt == waitrequest(w) IN
  /\ Startup
  /\ FetchStage(st, kl, wt)
  /\ DecodeStage(st, kl, wt)
  /\ ExecuteStage(st, kl, wt)
  /\ MemStage(kl, wt)
  /\ WriteBackStage(wt)
  /\ RegFile
  /\ PcUpdate(st, wt)
  /\ CsrClock(CsrPort(st))
  /\ interrupt_sig' = irq

(* CpuBus: the core on IMem and DMem, its wait inputs driven from outside. *)
Cycle(w, irq) == Pipeline(w, irq) /\ ImemClock /\ DmemClock

Next == \E w \in WaitInputs, irq \in IrqInputs : Cycle(w, irq)

Spec == Init /\ [][Next]_vars

(* The clock never stops and the bus does not wait for ever. *)
Fairness == WF_vars(\E irq \in IrqInputs : Cycle(FALSE, irq))

FairSpec == Spec /\ Fairness
=============================================================================
