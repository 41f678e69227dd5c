SPECIFICATION FairSpec
CONSTANTS
  BiosConfigs = {71, 4}
  SelfTests <- MCSelfTests
  TestResets = TRUE
  MaxKeys = 1
  MaxMouse = 1
  MaxResends = 1
  nuid64_str <- MCString
  MaxTimeouts = 1
  Devices = {0, 8}
  MaxRaised = 1
INVARIANTS NothingInService ConfigRight HandsOver
PROPERTIES BootFinishes KeyboardServed
