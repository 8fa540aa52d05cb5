------------------------------ MODULE MCAvalon ------------------------------
EXTENDS Program, AvalonRefinement

(* Loads and stores at computed addresses, three NOPs after each, between  *)
(* instructions that make their operands and use their results.            *)
MCAlu == {addi(1, 0, 4), add(4, 3, 1)}
MCMem == {lw(3, 0, 1), sw(2, 4, 0), lw(1, 4, 0)}
MCUse == {b("BEQ", 3, 2, 8), add(2, 1, 3), jal(3, 8)}

MCPadPrograms ==
  {Load(<<NOP, i, k>> \o nops(3) \o <<l, m>> \o nops(3) \o <<n, NOP, END>>) :
     i \in MCAlu, k, m \in MCMem, l, n \in MCUse}

(* A function that loads or stores and returns at once (put32, get32).     *)
MCCallPrograms ==
  {Load(<<NOP, i, jal(5, 24), j, add(2, 1, 3), END, NOP, NOP, m, jalr(0, 5, 0)>>
        \o nops(3) \o <<END>>) :
     i \in MCAlu, m \in MCMem, j \in MCUse}

MCPrograms == MCPadPrograms \cup MCCallPrograms
MCImages == {[k \in DmemIndex |-> 4 * (k % 3)]}

(* For the disagreements: straight-line code and two loads back to back.   *)
LinePrograms == {Load(<<NOP, addi(1, 0, 5), add(2, 1, 1), NOP, NOP, END>>)}
PairPrograms == {Load(<<NOP, lw(1, 4, 0), lw(2, 8, 0)>> \o nops(4) \o <<END>>)}
=============================================================================
