SPECIFICATION FirmwareSpec
CONSTANTS
  LSB = 256
  BYTE = 16
  TargetRate = 10
  Builds <- MainBuild
  Samples <- OneSample
  Factory <- FactorySettings
  MaxPolls = 1
  MaxResets = 1
INVARIANTS
  ManualCalibration
