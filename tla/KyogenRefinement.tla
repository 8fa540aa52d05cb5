-------------------------- MODULE KyogenRefinement --------------------------
(***************************************************************************)
(* The pipeline implements the instruction set.  An instruction takes      *)
(* effect when it passes from EX to MEM: from then on nothing can kill it. *)
(* The mapping therefore completes what MEM and WB have still to do.       *)
(* The history variable h keeps the address that follows the last          *)
(* instruction that took effect, for the clocks in which MEM is empty.     *)
(***************************************************************************)
EXTENDS KyogenArch

VARIABLE h

after == IF mem.inst # NOP THEN nextOfMem ELSE h

HInit == Init /\ h = pc_ini

(* wt is the wire waitrequest. *)
Follow(wt) == h' = IF wt THEN h ELSE IF csr_expt THEN csr.mtvec ELSE after

HNext == \E w \in WaitInputs, irq \in IrqInputs :
           Cycle(w, irq) /\ Follow(waitrequest(w))

hvars == <<vars, h>>

HSpec == HInit /\ [][HNext]_hvars
---------------------------------------------------------------------------
ISA == INSTANCE RV32ISA WITH
         prog <- imem,
         pc   <- NextReal(imem, after),
         x    <- [r \in RegField |-> settled(r)],
         m    <- stored,
         c    <- [mtvec |-> csr.mtvec, mscratch |-> csr.mscratch,
                  mepc |-> csr.mepc, mcause |-> csr.mcause, mtval |-> csr.mtval]

ImplementsISA == ISA!IsaSpec
---------------------------------------------------------------------------
(***************************************************************************)
(* External interrupts come from outside the instruction set, so they are  *)
(* described by what taking one does.                                      *)
(***************************************************************************)
interrupted == isExtInt(csr) /\ ~stall

(***************************************************************************)
(* ResumesInterrupted: the return address an external interrupt leaves in  *)
(* mepc is that of the first instruction that has not taken effect, so     *)
(* returning to it neither repeats nor skips one (valid_pc in csr.scala).  *)
(***************************************************************************)
ResumesInterrupted ==
  [][interrupted => NextReal(imem, csr'.mepc) = NextReal(imem, after)]_hvars

(***************************************************************************)
(* InterruptsMaskable: with every enable bit of mstatus clear an external  *)
(* interrupt waits (isExtInt in csr.scala).                                *)
(***************************************************************************)
InterruptsMaskable == interrupted => csr.IE \/ csr.IE1
=============================================================================
