------------------------------ MODULE MCForward ------------------------------
(* Three instructions, back to back, that make and use values in every way *)
(* the forwarding network and the interlocks distinguish, over a bus that  *)
(* waits at any clock.  The loops at the end catch the program counter     *)
(* also when a load or a store hides the first of them.                    *)
EXTENDS Program

MCInsts == {addi(1, 1, 4), add(2, 1, 2), sub(1, 2, 1), lw(1, 0, 2), lw(3, 4, 0),
            sw(1, 4, 2), jal(1, 8), b("BNE", 1, 2, 8), csrrw(1, "mscratch", 2)}

MCPrograms ==
  {Load(<<NOP, i, j, k>> \o nops(4) \o <<END>> \o nops(4) \o <<END>>) :
     i, j, k \in MCInsts}
MCImages == {[k \in DmemIndex |-> 4 * k % 24]}
=============================================================================
