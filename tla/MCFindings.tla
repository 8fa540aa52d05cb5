------------------------------ MODULE MCFindings ------------------------------
(* One short program for each place where the pipeline and the instruction *)
(* set part.  Nothing waits here and nothing interrupts unless the         *)
(* configuration says so.  The END loop comes twice where the first may be *)
(* lost.                                                                   *)
EXTENDS Program, KyogenRefinement

Ending == nops(4) \o <<END>>

(* Straight-line code around a load. *)
NearLoadPrograms ==
  {Load(<<NOP, lw(3, 4, 0), addi(1, 0, 5), addi(2, 0, 6), addi(4, 0, 7)>> \o Ending)}

(* A jump over an instruction that traps, or that writes a CSR.            *)
OverTrapPrograms == {Load(<<NOP, jal(1, 8), ecall>> \o Ending)}
OverCsrPrograms  == {Load(<<NOP, addi(1, 0, 5), jal(2, 8), csrw("mscratch", 1)>> \o Ending)}

(* A CSR write in EX while ID waits for the register WB writes. *)
CsrStallPrograms ==
  {Load(<<NOP, addi(1, 0, 5), NOP, NOP, addi(5, 0, 1), NOP, csrw("mscratch", 1),
          add(6, 5, 0)>> \o Ending)}

(* A CSR operand in a register whose number is in the rd bits of a branch,  *)
(* and x0 written behind another CSR instruction that writes x0.            *)
CsrForwardPrograms ==
  {Load(<<NOP, addi(1, 0, 5)>> \o nops(3) \o
        <<b("BEQ", 0, 1, 8), csrw("mscratch", 8)>> \o Ending)}
CsrZeroPrograms ==
  {Load(<<NOP, addi(1, 0, 36)>> \o nops(3) \o
        <<csrw("mtvec", 1), csrw("mscratch", 0)>> \o Ending)}

(* A CSR swap: x2 must get what mscratch held. *)
SwapPrograms ==
  {Load(<<NOP, addi(1, 0, 5)>> \o nops(3) \o <<csrrw(2, "mscratch", 1)>> \o Ending)}

(* A jump to an odd address. *)
OddJumpPrograms ==
  {Load(<<NOP, addi(1, 0, 37)>> \o nops(3) \o <<jalr(2, 1, 0)>> \o nops(4) \o Ending)}

(* Straight-line code that lets external interrupts in; the handler is at 64. *)
IrqPrograms ==
  {Load(<<NOP, addi(1, 0, 2047), addi(1, 1, 1)>> \o nops(3) \o
        <<csrw("mie", 1), addi(2, 2, 1), addi(3, 2, 1)>> \o Ending)}

MCImages == {ZeroData}
=============================================================================
