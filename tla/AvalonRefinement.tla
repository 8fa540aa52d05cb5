--------------------------- MODULE AvalonRefinement ---------------------------
(***************************************************************************)
(* The core behind the Avalon-MM wrapper implements the instruction set,   *)
(* with the refinement mapping of KyogenRefinement.                        *)
(***************************************************************************)
EXTENDS KyogenAvalonMM, KyogenRefinement

AvalonHInit == HInit /\ pending = NoRead

AvalonHCycle(iw, dw, late) ==
  /\ AvalonCycle(iw, dw, late)
  /\ Follow(waitrequest(imem_waits(iw) \/ dmem_waits(dw)))

AvalonHNext ==
  \E iw \in InstWaits, dw, late \in DataWaits : AvalonHCycle(iw, dw, late)

avalonHVars == <<hvars, pending>>

(* The clock never stops, and a slave does not wait or put off for ever.   *)
AvalonHSpec == /\ AvalonHInit /\ [][AvalonHNext]_avalonHVars
               /\ WF_avalonHVars(AvalonHCycle(FALSE, FALSE, FALSE))
=============================================================================
