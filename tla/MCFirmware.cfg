SPECIFICATION FirmwareSpec
CONSTANTS
  LSB = 256
  BYTE = 16
  TargetRate = 10
  Builds <- SomeBuilds
  Samples <- FiveSamples
  Factory <- FactorySettings
  MaxPolls = 1
  MaxResets = 1
INVARIANTS
  RangesConfigured
  RangesWithinBudget
  ReportsSamples
  SpadsMeetTarget
PROPERTIES
  KeepsReporting
