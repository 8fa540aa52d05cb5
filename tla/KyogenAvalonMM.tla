---------------------------- MODULE KyogenAvalonMM ----------------------------
(***************************************************************************)
(* The core behind kyogenrv_fpga_avalonMM.sv, the wrapper the FPGA uses:   *)
(* an Avalon-MM master for instructions and one for data.  The wrapper     *)
(* turns a slave's waitrequest into the core's wait input only while the   *)
(* core requests something from that slave.                                *)
(*                                                                         *)
(* The slaves are external.  A request a slave makes wait is not accepted. *)
(* Instructions come from on-chip memory, one clock after the request is   *)
(* accepted; a data read is answered after any number of clocks, and the   *)
(* next request is made to wait until then.                                *)
(***************************************************************************)
EXTENDS KyogenArch

CONSTANTS InstWaits,  \* whether the instruction slave may ever wait
          DataWaits   \* whether the data slaves may ever wait or answer late

ASSUME AvalonAssumption == InstWaits \subseteq BOOLEAN /\ DataWaits \subseteq BOOLEAN

VARIABLE pending     \* index of the data word a slave has yet to answer with

NoRead == -1

avalonVars == <<vars, pending>>

imem_waits(iw) == imem_req /\ iw
dmem_waits(dw) == isMemOp(mem.inst) /\ (dw \/ pending # NoRead)

InstSlave(iw) ==
  \/ ~imem_waits(iw) /\ ImemClock
  \/ imem_waits(iw) /\ imem_ack' = FALSE /\ UNCHANGED <<imem, imem_data>>

accepts(dw, wr) == mem_wr(mem.inst) = wr /\ ~dmem_waits(dw) /\ mem.alu <= DTOP

(* late: the answer takes at least a clock more. *)
DataSlave(dw, late) ==
  LET asked == IF accepts(dw, "XRD") THEN mem.alu \div 4 ELSE pending IN
  /\ dmem' = IF accepts(dw, "XWR")
             THEN [dmem EXCEPT ![mem.alu \div 4] = mem.rs2] ELSE dmem
  /\ \/ /\ asked # NoRead /\ ~late
        /\ dmem_ack' = TRUE /\ dmem_raddr' = asked /\ pending' = NoRead
     \/ /\ asked = NoRead \/ late
        /\ dmem_ack' = FALSE /\ pending' = asked
        /\ UNCHANGED dmem_raddr

(* The wrapper ties w_interrupt_sig to zero. *)
AvalonCycle(iw, dw, late) ==
  /\ Pipeline(imem_waits(iw) \/ dmem_waits(dw), FALSE)
  /\ InstSlave(iw)
  /\ DataSlave(dw, late)

AvalonInit == Init /\ pending = NoRead

AvalonNext ==
  \E iw \in InstWaits, dw, late \in DataWaits : AvalonCycle(iw, dw, late)

AvalonSpec == AvalonInit /\ [][AvalonNext]_avalonVars
---------------------------------------------------------------------------
(***************************************************************************)
(* AnswersClaimed: whenever a data slave owes or gives an answer, the load *)
(* that asked for it is in WB and waits for that very word: no answer goes *)
(* to another load, and none passes while nobody looks (dmem_rd_wait,      *)
(* core.scala 117, and the wrapper's datawaitreq, line 40).                *)
(***************************************************************************)
AnswersClaimed ==
  /\ pending # NoRead => mem_wr(wb.inst) = "XRD" /\ pending = wb.alu \div 4
  /\ dmem_ack => mem_wr(wb.inst) = "XRD" /\ dmem_raddr = wb.alu \div 4
=============================================================================
