----------------------------- MODULE KyogenArch -----------------------------
(***************************************************************************)
(* What the pipeline's registers mean for the program: an instruction      *)
(* takes effect when it passes from EX to MEM, because from MEM on nothing *)
(* kills it, so the program's registers and memory are the register file   *)
(* and DMem completed with what MEM and WB have still to write.  The       *)
(* properties of the pipeline's interlocks are stated against this view.   *)
(***************************************************************************)
EXTENDS KyogenRVCpu, RV32Meaning

loaded(a) == IF a <= DTOP THEN dmem[a \div 4] ELSE 0

(* What the instruction in MEM or WB writes to its rd. *)
result(stage) == CASE wb_sel(stage.inst) = "PC4" -> Add(stage.pc, 4)
                   [] wb_sel(stage.inst) = "CSR" -> stage.csr
                   [] wb_sel(stage.inst) = "MEM" -> loaded(stage.alu)
                   [] OTHER                      -> stage.alu

writes(stage, r) == rf_wen(stage.inst) /\ stage.inst.rd = r

(* Register r once MEM and WB have written back. *)
settled(r) == IF r = 0 THEN rv32i_reg[0]
              ELSE IF writes(mem, r) THEN result(mem)
              ELSE IF writes(wb, r) THEN result(wb)
              ELSE rv32i_reg[r]

stored == IF mem_wr(mem.inst) = "XWR" /\ mem.alu <= DTOP
          THEN [dmem EXCEPT ![mem.alu \div 4] = mem.rs2] ELSE dmem

(* What a load finds; a load from beyond the memory, which is never        *)
(* answered, stays in WB and counts as zero for those that never follow.   *)
contents == [k \in Word |-> IF k \in DmemIndex THEN stored[k] ELSE 0]

(* Where the program goes after the instruction in MEM. *)
nextOfMem ==
  CASE br_type(mem.inst) = "RET" -> csr.mepc
    [] br_type(mem.inst) = "COND" /\ mem.cmp -> Add(mem.pc, mem.inst.imm)
    [] br_type(mem.inst) \in {"J", "JR"} -> mem.alu
    [] OTHER -> Add(mem.pc, 4)
---------------------------------------------------------------------------
(***************************************************************************)
(* OperandsCorrect: whatever program runs and whenever the bus waits, the  *)
(* operands the forwarding network (core.scala 329-346) gives an           *)
(* instruction that can take effect are the registers' values as the       *)
(* instructions before it leave them.  It rests on the stall conditions    *)
(* for a load in EX and for a register in WB, and on EX being empty behind *)
(* a jump or a load, none of which the network itself looks at.            *)
(***************************************************************************)
OperandsCorrect ==
  ~inst_kill_branch =>
    /\ rs1_bypass = settled(ex.inst.rs1)
    /\ rs2_bypass = settled(ex.inst.rs2)

(* What the interlocks guarantee the forwarding network, in four parts.    *)

(* Behind a jump or a load in WB there is nothing: the network has no path *)
(* for the return address, and the load's data may still be on their way.  *)
EmptyBehind ==
  br_type(wb.inst) \in {"J", "JR"} \/ mem_wr(wb.inst) = "XRD" => ex.inst = NOP

(* A load in MEM, whose data are not there yet, has no user in EX.         *)
NoUseBehindLoad ==
  mem_wr(mem.inst) = "XRD" =>
    mem.inst.rd = 0 \/ mem.inst.rd \notin {ex.inst.rs1, ex.inst.rs2}

(* What ID read for the instruction in EX is still what the register file  *)
(* holds, unless WB is about to write it.                                  *)
Fresh(r, v) == (r = 0 \/ ~writes(wb, r)) => v = rv32i_reg[r]

OperandsFresh == Fresh(ex.inst.rs1, ex.rs1) /\ Fresh(ex.inst.rs2, ex.rs2)

X0Zero == rv32i_reg[0] = 0

(***************************************************************************)
(* Interlocks: together these hold in every reachable state, and each      *)
(* clock preserves them (core.scala 280-325); OperandsCorrect follows.     *)
(***************************************************************************)
Interlocks == EmptyBehind /\ NoUseBehindLoad /\ OperandsFresh /\ X0Zero
---------------------------------------------------------------------------
(***************************************************************************)
(* KeepsExecuting: the pipeline never ends up waiting for itself: as long  *)
(* as the bus is not busy for ever, and makes nobody wait in the one clock *)
(* of a load's answer, instructions go on taking effect.  The stall        *)
(* conditions, the save slots, temp_lock and dmem_rd_wait all make one     *)
(* stage wait for another (core.scala 115-233, 280-293).  Every program    *)
(* ends in a loop, so there is always a next instruction.                  *)
(***************************************************************************)
KeepsExecuting == []<><<mem'.inst # NOP>>_mem
---------------------------------------------------------------------------
(* No load or store directly behind a load.  Programs see to that with an  *)
(* instruction between the two: a bus that waits has no other means to     *)
(* keep the answers of two accesses apart.                                 *)
LoadsApart == mem_wr(wb.inst) = "XRD" => ~isMemOp(mem.inst)

(* The instruction in EX passes to MEM, and has there the effect its       *)
(* meaning gives it: on every register, on every word of memory and on     *)
(* where the program goes.  A jump, a load or a store that raises an       *)
(* exception does not pass.                                                *)
Executed ==
  LET i == ex.inst
      a == settled(i.rs1)
      b == settled(i.rs2)
      old == CsrOut(csr, i.csr)
  IN /\ mem'.inst = i
     /\ isMem(i) \/ isJump(i) => CauseOf(i, a, ex.pc) = NoCause
     /\ nextOfMem' = NextPc(i, a, b, ex.pc, csr'.mepc)
     /\ \A r \in RegField :
          settled(r)' = IF WritesRd(i) /\ r = i.rd /\ r # 0
                        THEN Result(i, a, b, ex.pc, old, contents) ELSE settled(r)
     /\ stored' = [k \in DmemIndex |-> IF i.op = "SW" /\ k = Add(a, i.imm) \div 4
                                      THEN b ELSE stored[k]]

(* MEM waits, or gets a bubble: nothing has changed for the program.       *)
Untouched == /\ mem' = mem \/ mem' = MemBubble
             /\ \A r \in RegField : settled(r)' = settled(r)
             /\ stored' = stored

(***************************************************************************)
(* EffectsCorrect: each clock either carries out the instruction in EX     *)
(* exactly as the instruction set says, or changes nothing: no killed,     *)
(* stalled or repeated instruction leaves a trace in the registers or in   *)
(* memory, and no write of one that passed is lost, whatever waits the     *)
(* write-back, the memory and the forwarding network meet (core.scala      *)
(* 329-348, 404-514, 588-608).  A CSR instruction passes to rd what the    *)
(* CSR unit holds at that moment; what it writes there, and when traps     *)
(* are taken, is not the subject.                                          *)
(***************************************************************************)
EffectsCorrect == [][LoadsApart => Executed \/ Untouched]_vars
=============================================================================
