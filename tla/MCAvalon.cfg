CONSTANTS
  XLEN = 13
  HALF = 4096
  EvecReset = 32
  Uninit = {0}
  ITOP = 92
  DTOP = 60
  Programs <- MCPrograms
  Images <- MCImages
  WaitInputs = {FALSE, TRUE}
  IrqInputs = {FALSE}
  InstWaits = {FALSE}
  DataWaits = {FALSE, TRUE}
SPECIFICATION AvalonHSpec
INVARIANT AnswersClaimed
PROPERTIES ImplementsISA KeepsExecuting
