CONSTANTS
  XLEN = 13
  HALF = 4096
  EvecReset = 32
  Uninit = {0}
  ITOP = 92
  DTOP = 60
  Programs <- LinePrograms
  Images <- MCImages
  WaitInputs = {FALSE, TRUE}
  IrqInputs = {FALSE}
  InstWaits = {FALSE, TRUE}
  DataWaits = {FALSE}
SPECIFICATION AvalonHSpec
PROPERTY ImplementsISA
