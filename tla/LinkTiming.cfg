SPECIFICATION Spec
CONSTANTS
  SlowTx = 4
  Microsecond = 1
  WireModulus = 16
  Discrs = {1}
  Nodes <- Ends
  NodeConfig <- MixedConfig
  Jitters = {0, 25}
  MaxDelay = 1
  MaxInFlight = 2
  Faults = {"loss"}
  Drainable = {"a"}
  Mortal = {}
INVARIANTS
  DetectionBound
PROPERTIES
  NoFalseAlarm
CONSTRAINT UntilNoticed
