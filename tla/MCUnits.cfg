SPECIFICATION UnitsSpec
CONSTANTS
  XLEN = 4
  HALF = 8
  BYTE = 2
  LastWord = 1
  HALFTIME = 8
  XTAL_FREQ_KHZ = 2
  MSWORD = 8
  io_timeout = 1
  Delays = {1, 5}
  MaxGap = 1
  INTS = 32
  LLONGS = 128
  SZB_OUTPUT = 6
  Formats <- AllFormats
  WORDS = 3
  Cells = {c1, c2, c3}
  LSB = 256
  Timeouts <- SomeTimeouts
  BYTES = 2
  DEPTH = 4
  Lengths = {1, 4}
INVARIANTS
  AluCorrect
  ShiftsCorrect
  NeverEarly
  NeverLate
  DigitsKeepValue
  LineCorrect
  SdramVerdict
  CodeCorrect
PROPERTIES
  ImplementsBytes
  ImplementsRegisters
  CallsReturn
CHECK_DEADLOCK FALSE
