CONSTANTS
  XLEN = 13
  HALF = 4096
  EvecReset = 64
  Uninit = {0}
  ITOP = 92
  DTOP = 60
  Programs <- IrqPrograms
  Images <- MCImages
  WaitInputs = {FALSE}
  IrqInputs = {FALSE, TRUE}
SPECIFICATION HSpec
PROPERTY ResumesInterrupted
