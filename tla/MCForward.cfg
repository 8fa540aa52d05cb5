CONSTANTS
  XLEN = 13
  HALF = 4096
  EvecReset = 32
  Uninit = {0}
  ITOP = 72
  DTOP = 60
  Programs <- MCPrograms
  Images <- MCImages
  WaitInputs = {FALSE, TRUE}
  IrqInputs = {FALSE}
SPECIFICATION Spec
INVARIANTS TypeOK OperandsCorrect Interlocks
PROPERTY EffectsCorrect
