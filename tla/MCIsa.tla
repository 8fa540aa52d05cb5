-------------------------------- MODULE MCIsa --------------------------------
(***************************************************************************)
(* Programs the pipeline must execute as the instruction set says: on a    *)
(* bus that waits in any clock, for programs of arithmetic, branches and   *)
(* jumps; on memories that answer in the next clock and never wait, for    *)
(* programs that load, store, use CSRs and trap.                           *)
(***************************************************************************)
EXTENDS Program, KyogenRefinement

(* Every program of three instructions drawn from these and a fourth that  *)
(* uses what they computed.                                                *)
MCInsts == {addi(1, 0, 5), add(2, 1, 1), sub(1, 2, 1), b("BEQ", 1, 2, 8),
            b("BNE", 1, 0, 8), jal(1, 8), NOP}
MCLast  == {add(2, 1, 2), b("BLT", 2, 1, 8)}

MCBranchPrograms == {Load(<<NOP, i, j, k, l, NOP, NOP, NOP, END>>) :
                       i, j, k \in MCInsts, l \in MCLast}

(* Loads and stores at computed addresses, three NOPs after each, between  *)
(* instructions that make their operands and use their results.            *)
MCAlu == {addi(1, 0, 4), addi(2, 0, 8), add(4, 3, 1), NOP}
MCMem == {lw(3, 0, 1), sw(2, 4, 0), lw(1, 4, 0), sw(3, 4, 1)}
MCUse == {add(4, 3, 3), b("BEQ", 3, 2, 8), add(2, 1, 3), jal(3, 8)}

MCMemPrograms ==
  {Load(<<NOP, i, j, k>> \o nops(3) \o <<l, m>> \o nops(3) \o <<n, NOP, END>>) :
     i, j \in MCAlu, k, m \in MCMem, l, n \in MCUse}

(* CSR instructions and traps, with a handler at 64 that returns behind    *)
(* the instruction that trapped.                                           *)
MCSys == {ecall, ebreak, illegal, csrrw(3, "mscratch", 1),
          csrrw(4, "mscratch", 2), csrr(5, "mcause"), csrrw(6, "mcause", 1),
          csrrw(7, "mtvec", 1), csrr(9, "mtval"),
          lw(8, 2, 0), sw(1, 1, 0), jal(1, 6), jalr(1, 1, 2)}

Handler == <<csrr(10, "mepc"), addi(10, 10, 4)>> \o nops(3)
           \o <<csrw("mepc", 10)>> \o nops(2) \o <<mret>>
MCMain(i, j, k) ==
  <<NOP, i>> \o nops(3) \o <<j>> \o nops(3) \o <<k>> \o nops(3) \o <<END>>

MCTrapPrograms ==
  {Load(MCMain(i, j, k) \o nops(16 - Len(MCMain(i, j, k))) \o Handler) :
     i \in {addi(1, 0, 68), addi(2, 1, 6)}, j, k \in MCSys}

(* A call of a function that loads or stores and returns at once, the way   *)
(* put32 and get32 in utils.S do.                                          *)
MCCallPrograms ==
  {Load(<<NOP, i, jal(5, 24), j, k, END, NOP, NOP, m, jalr(0, 5, 0)>>
        \o nops(3) \o <<END>>) :
     i \in MCAlu, m \in MCMem, j, k \in MCUse}

MCPrograms ==
  MCBranchPrograms \cup MCMemPrograms \cup MCCallPrograms \cup MCTrapPrograms
MCImages == {[k \in DmemIndex |-> 4 * (k % 3)]}

(* The words a branch program is made of; the others hold an instruction   *)
(* of another kind.                                                        *)
MayWait == \A k \in ImemIndex : imem[k] \in MCInsts \cup MCLast \cup {END}

MCNext == \E w \in WaitInputs, irq \in IrqInputs :
            /\ w => MayWait
            /\ Cycle(w, irq) /\ Follow(waitrequest(w))

MCSpec == HInit /\ [][MCNext]_hvars
=============================================================================
