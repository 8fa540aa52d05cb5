CONSTANTS
  XLEN = 13
  HALF = 4096
  EvecReset = 64
  Uninit = {0}
  ITOP = 112
  DTOP = 60
  Programs <- MCPrograms
  Images <- MCImages
  WaitInputs = {FALSE, TRUE}
  IrqInputs = {FALSE}
SPECIFICATION MCSpec
PROPERTY ImplementsISA
