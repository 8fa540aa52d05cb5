----------------------------- MODULE MCProgress -----------------------------
(***************************************************************************)
(* Jumps, traps, loads, stores and hazards close to each other; the trap   *)
(* handler is the first of the loops.  The bus waits in any clock of the   *)
(* programs without a load or store: the test bus acknowledges in one      *)
(* clock only, and a wait in that clock would make a load wait for ever.   *)
(***************************************************************************)
EXTENDS Program

Main(i, j, k) ==
  Load(<<NOP, i, j, NOP, k>> \o nops(4) \o <<END>> \o nops(4) \o <<END>>)

MCInsts == {addi(1, 0, 5), add(2, 1, 1), b("BNE", 1, 0, 8), jal(1, 8), ecall}

MCMem == {lw(1, 4, 0), sw(1, 4, 0)}
MCUse == {add(2, 1, 1), jal(1, 8), ecall}

MCPrograms ==
  {Main(i, j, k) : i, j \in MCInsts, k \in MCInsts \ {addi(1, 0, 5)}}
    \cup {Main(i, j, k) : i \in MCMem, j, k \in MCMem \cup MCUse}
    \cup {Main(i, j, k) : i \in MCUse, j \in MCMem, k \in MCMem \cup MCUse}
MCImages == {ZeroData}

MayWait == \A k \in ImemIndex : ~isMemOp(imem[k])

MCNext == \E w \in WaitInputs, irq \in IrqInputs : (w => MayWait) /\ Cycle(w, irq)

MCSpec == Init /\ [][MCNext]_vars /\ Fairness
=============================================================================
